---- MODULE Spec2Model ----
(***************************************************************************)
(* Abandoned-cart recovery: the CartSyncService engine                     *)
(* (src/lib/sync/cart-sync.ts), the cron scan (src/app/api/cron/           *)
(* cart-recovery/route.ts) and the POST /api/carts/recovery batch          *)
(* (src/unnamed/part_000).                                                 *)
(*                                                                         *)
(* Time is counted in hours.  The remote commerce platform and the         *)
(* messaging API may fail any call.  The record store answers every query  *)
(* unless the run is one where it can fail (env.faults): then the queries  *)
(* the scan pass makes itself, and the status write that follows a         *)
(* delivered message, may throw.                                           *)
(* Every engine operation is one atomic step.  A scan pass takes one step   *)
(* per query and per cart; requests are served one at a time, so that no   *)
(* other request and no clock step falls between the steps of a pass.      *)
(***************************************************************************)
EXTENDS Integers, Sequences, FiniteSets, TLC

VARIABLES
    carts,      \* the Cart table: a sequence of records, the cart id is the index
    now,        \* the clock (Date.now()), in hours
    created,    \* number of remote carts the platform has created (cartCreate)
    scan,       \* the scan pass in progress (cron GET or POST batch)
    ev,         \* the last operation: its name, engine, argument, return value
                \* and the remote calls it made, each with the answer it got
    watch,      \* the operations ev records: <<name, is the engine's URL set>>
    env,        \* the run's surroundings: whether the record store can fail
                \* a query or a write of a scan pass, the lists of abandoned
                \* checkouts each store's platform can answer, and whether
                \* delivered messages are counted
    delivered,  \* per cart id, the messages the scan passes had WhatsApp accept
    suspended,  \* a second request's scan pass, waiting at one of its awaits
                \* while the pass in `scan` runs
    flight      \* a sendCartRecoveryMessage call that has had its message
                \* accepted and has not yet written the cart

vars == <<carts, now, created, scan, ev, watch, env, delivered, suspended, flight>>

---------------------------------------------------------------------------
(* Bounds of the model *)

MaxCarts == 2
MaxShopifyCarts == 1
MaxTime == 97
MaxMessages == 3
MaxItems == 3
MaxStatCarts == 7
MaxRevenueCarts == 3

(* A clock step: two days.  With the clock starting at hour 1, one hour     *)
(* after the first cart's last update, timestamps have ages 0, 48 and 96   *)
(* hours and the first cart's update has ages 1, 49 and 97 hours.          *)
TickDeltas == {48}

---------------------------------------------------------------------------
(* Program constants, in hours *)

AbandonedAfter == 1
FollowUpAfter == 24
LostAfter == 48

(* null of a nullable DateTime, of a nullable remote id, of a nullable string *)
NoTime == -1
NoId == 0
Null == "null"

---------------------------------------------------------------------------
(* The tables the engine only reads *)

StoreIds == {"s1", "s2", "s3"}
(* the order in which store.findMany lists the stores *)
StoreOrder == <<"s1", "s3", "s2">>

(* s1: fully configured.  s2: Shopify configured, a WhatsApp phone-number  *)
(* id that is the empty string.  s3: Shopify token, a store URL that is    *)
(* the empty string, no WhatsApp token.                                    *)
Store(s) ==
    [ id |-> s,
      isActive |-> TRUE,
      shopifyAccessToken |-> "shpat",
      shopifyStoreUrl |-> IF s = "s3" THEN "" ELSE "https://shop",
      whatsappPhoneNumberId |-> IF s = "s2" THEN "" ELSE "15550",
      whatsappAccessToken |-> IF s = "s3" THEN Null ELSE "EAAG" ]

(* JavaScript truthiness of a nullable string: `!x` is true of null and "" *)
Truthy(x) == x # Null /\ x # ""

Product(p) ==
    IF p = "P1" THEN [id |-> "P1", price |-> 10]
    ELSE [id |-> "P2", price |-> 20]

ProductIds == {"P1", "P2"}

(* P3 is mapped but is no longer a product. *)
ProductMappings ==
    { [storeId |-> "s1", metastoreProductId |-> "P1", shopifyVariantId |-> "V1"],
      [storeId |-> "s2", metastoreProductId |-> "P2", shopifyVariantId |-> "V1"],
      [storeId |-> "s1", metastoreProductId |-> "P3", shopifyVariantId |-> "V3"] }

(* The remote platform's abandoned checkouts. *)
Checkout(k) ==
    IF k = 101
    THEN [ id |-> 101, phone |-> "+1", created_at |-> 0, updated_at |-> 1,
           line_items |-> << [variant_id |-> "V1", quantity |-> 2],
                             [variant_id |-> "V9", quantity |-> 1] >> ]
    ELSE [ id |-> 102, phone |-> "+2", created_at |-> 0, updated_at |-> 1,
           line_items |-> << [variant_id |-> "V9", quantity |-> 1],
                             [variant_id |-> "V3", quantity |-> 1] >> ]

CheckoutBatches == { <<>>, <<101>>, <<102>>, <<102, 101>> }

RecoveryStatus ==
    {"NONE", "ABANDONED", "NOTIFIED_FIRST", "NOTIFIED_FINAL", "RECOVERED", "LOST"}

NewCart(s, phone, items, total, code, amount, updatedAt) ==
    [ storeId |-> s, customerPhone |-> phone, items |-> items, total |-> total,
      updatedAt |-> updatedAt, abandonedAt |-> NoTime, recoveryStatus |-> "NONE",
      lastNotifiedAt |-> NoTime, recoveredAt |-> NoTime,
      discountCode |-> code, discountAmount |-> amount, shopifyCartId |-> NoId ]

InitialCarts(s) ==
    << NewCart(s, "+1", << [id |-> "P1", price |-> 10, quantity |-> 2] >>, 20,
               "SAVE", 3, 0) >>

CartIds == 0 .. MaxCarts

Exists(cs, c) == c \in DOMAIN cs

---------------------------------------------------------------------------
(* CartSyncService *)

(* no service object: the step of a request that holds none *)
NoService == [storeId |-> Null, shopifyAccessToken |-> FALSE, shopifyStoreUrl |-> FALSE]

(* constructor: only the store id is set *)
NewService(s) ==
    [storeId |-> s, shopifyAccessToken |-> FALSE, shopifyStoreUrl |-> FALSE]

(* initialize() testing the access token only *)
InitializeOkTokenOnly(s) == Truthy(Store(s).shopifyAccessToken)

(* initialize(): true exactly when the store row has both Shopify fields *)
InitializeOk(s) ==
    Truthy(Store(s).shopifyAccessToken) /\ Truthy(Store(s).shopifyStoreUrl)

Initialized(e) ==
    IF InitializeOk(e.storeId)
    THEN [e EXCEPT !.shopifyAccessToken = TRUE, !.shopifyStoreUrl = TRUE]
    ELSE e

(* a fetch that leaves whatever the URL field holds *)
CanFetchAlways(e) == TRUE

(* fetch(`${this.shopifyStoreUrl}/...`) with the field unset is an invalid *)
(* URL: fetch throws before any request leaves, and the catch returns the  *)
(* failure value.                                                          *)
CanFetch(e) == e.shopifyStoreUrl

(* What the remote side answers during one operation: to cartLinesUpdate,  *)
(* to cartCreate, to the cart query, to the checkoutUrl query and to the   *)
(* WhatsApp message.  An answer that is never asked for is listed once.    *)
(* write: the record store accepts the cart.update that follows a          *)
(* delivered message.                                                      *)
Oracle ==
    { o \in [update : BOOLEAN, create : BOOLEAN, cart : BOOLEAN, url : BOOLEAN,
             whatsapp : BOOLEAN,
             write : IF env.faults THEN BOOLEAN ELSE {TRUE}] :
        /\ o.update => ~o.create
        /\ ~o.cart => ~o.url
        /\ ~o.url => ~o.whatsapp
        /\ ~o.whatsapp => o.write }

NoAnswer ==
    [update |-> FALSE, create |-> FALSE, cart |-> FALSE, url |-> FALSE,
     whatsapp |-> FALSE, write |-> TRUE]

(* The answers an operation on cart c of table cs can ask for: none when   *)
(* the engine cannot fetch or the cart row is missing, no answer to an     *)
(* update when the cart has no remote id, and so on.                       *)
SyncOracle(e, cs, c) ==
    IF ~(CanFetch(e) /\ Exists(cs, c)) THEN {NoAnswer}
    ELSE {o \in Oracle : /\ ~o.cart
                         /\ cs[c].shopifyCartId = NoId => ~o.update}

UrlOracle(e, cs, c) ==
    IF ~(CanFetch(e) /\ Exists(cs, c)) THEN {NoAnswer}
    ELSE IF cs[c].shopifyCartId = NoId THEN {NoAnswer}
    ELSE {o \in Oracle : o.url => o.whatsapp}

SendOracle(e, cs, c) ==
    IF ~(CanFetch(e) /\ Exists(cs, c)) THEN {NoAnswer}
    ELSE IF \/ cs[c].shopifyCartId = NoId
            \/ cs[c].customerPhone = Null
            \/ ~Truthy(Store(cs[c].storeId).whatsappPhoneNumberId)
            \/ ~Truthy(Store(cs[c].storeId).whatsappAccessToken)
         THEN {NoAnswer}
    ELSE Oracle

(* productMapping.findFirst({metastoreProductId, storeId}) *)
MappingsOfProduct(s, p) ==
    {m \in ProductMappings : m.storeId = s /\ m.metastoreProductId = p}

(* productMapping.findFirst({shopifyVariantId, storeId}) *)
MappingsOfVariant(s, v) ==
    {m \in ProductMappings : m.storeId = s /\ m.shopifyVariantId = v}

(* the mapping that passes an unmapped item on under its local product id *)
RECURSIVE mapMetastoreItemsKeepUnmapped(_, _)
mapMetastoreItemsKeepUnmapped(s, items) ==
    IF items = <<>> THEN <<>>
    ELSE LET item == Head(items)
             found == MappingsOfProduct(s, item.id)
             rest == mapMetastoreItemsKeepUnmapped(s, Tail(items))
         IN  << [merchandiseId |-> IF found = {} THEN item.id
                                   ELSE (CHOOSE m \in found : TRUE).shopifyVariantId,
                 quantity |-> item.quantity] >> \o rest

RECURSIVE mapMetastoreItemsToShopify(_, _)
mapMetastoreItemsToShopify(s, items) ==
    IF items = <<>> THEN <<>>
    ELSE LET item == Head(items)
             found == MappingsOfProduct(s, item.id)
             rest == mapMetastoreItemsToShopify(s, Tail(items))
         IN  IF found = {} THEN rest
             ELSE << [merchandiseId |-> (CHOOSE m \in found : TRUE).shopifyVariantId,
                      quantity |-> item.quantity] >> \o rest

(* the mapping back without the lookup of the product row *)
RECURSIVE mapShopifyItemsKeepMissing(_, _)
mapShopifyItemsKeepMissing(s, lineItems) ==
    IF lineItems = <<>> THEN <<>>
    ELSE LET item == Head(lineItems)
             found == MappingsOfVariant(s, item.variant_id)
             rest == mapShopifyItemsKeepMissing(s, Tail(lineItems))
         IN  IF found = {} THEN rest
             ELSE LET pid == (CHOOSE m \in found : TRUE).metastoreProductId
                  IN  << [id |-> pid, price |-> Product(pid).price,
                          quantity |-> item.quantity] >> \o rest

RECURSIVE mapShopifyItemsToMetastore(_, _)
mapShopifyItemsToMetastore(s, lineItems) ==
    IF lineItems = <<>> THEN <<>>
    ELSE LET item == Head(lineItems)
             found == MappingsOfVariant(s, item.variant_id)
             rest == mapShopifyItemsToMetastore(s, Tail(lineItems))
         IN  IF found = {} THEN rest
             ELSE LET pid == (CHOOSE m \in found : TRUE).metastoreProductId
                  IN  IF pid \notin ProductIds THEN rest
                      ELSE << [id |-> pid, price |-> Product(pid).price,
                               quantity |-> item.quantity] >> \o rest

RECURSIVE ItemsTotal(_)
ItemsTotal(items) ==
    IF items = <<>> THEN 0
    ELSE Head(items).price * Head(items).quantity + ItemsTotal(Tail(items))

(* An operation's outcome: the Cart table and the remote cart count after  *)
(* it, its return value and the remote calls it made, each paired with     *)
(* whether the remote side answered it with success.                       *)
Outcome(cs, n, ret, calls) ==
    [carts |-> cs, created |-> n, ret |-> ret, calls |-> calls]

(* syncCartToShopify without the fallback: a failed update returns null *)
syncCartToShopifyNoFallback(e, cs, n, c, o) ==
    IF ~Exists(cs, c) THEN Outcome(cs, n, NoId, {})
    ELSE
      LET cart == cs[c]
          tryUpdate == cart.shopifyCartId # NoId
          updated == tryUpdate /\ CanFetch(e) /\ o.update
          callsU == IF tryUpdate /\ CanFetch(e) THEN {<<"cartLinesUpdate", o.update>>} ELSE {}
          createOk == CanFetch(e) /\ o.create /\ n < MaxShopifyCarts
          callsC == IF CanFetch(e) THEN {<<"cartCreate", createOk>>} ELSE {}
      IN  IF updated THEN Outcome(cs, n, cart.shopifyCartId, callsU)
          ELSE IF tryUpdate THEN Outcome(cs, n, NoId, callsU)
          ELSE IF createOk
               THEN Outcome([cs EXCEPT ![c].shopifyCartId = n + 1], n + 1, n + 1,
                            callsU \cup callsC)
               ELSE Outcome(cs, n, NoId, callsU \cup callsC)

(* syncCartToShopify(cartId) *)
syncCartToShopify(e, cs, n, c, o) ==
    IF ~Exists(cs, c) THEN Outcome(cs, n, NoId, {})
    ELSE
      LET cart == cs[c]
          tryUpdate == cart.shopifyCartId # NoId
          updated == tryUpdate /\ CanFetch(e) /\ o.update
          callsU == IF tryUpdate /\ CanFetch(e) THEN {<<"cartLinesUpdate", o.update>>} ELSE {}
          createOk == CanFetch(e) /\ o.create /\ n < MaxShopifyCarts
          callsC == IF CanFetch(e) THEN {<<"cartCreate", createOk>>} ELSE {}
      IN  IF updated THEN Outcome(cs, n, cart.shopifyCartId, callsU)
          ELSE IF createOk
               THEN Outcome([cs EXCEPT ![c].shopifyCartId = n + 1], n + 1, n + 1,
                            callsU \cup callsC)
               ELSE Outcome(cs, n, NoId, callsU \cup callsC)

(* A checkout URL: the remote cart it checks out and the discount appended *)
Url(id, code) == [checkout |-> id, discount |-> code]
NoUrl == Url(NoId, Null)

(* getCartRecoveryUrl(cartId) *)
getCartRecoveryUrl(e, cs, n, c, o) ==
    IF ~Exists(cs, c) THEN Outcome(cs, n, NoUrl, {})
    ELSE IF cs[c].shopifyCartId = NoId THEN Outcome(cs, n, NoUrl, {})
    ELSE
      LET cart == cs[c]
          synced == syncCartToShopify(e, cs, n, c, o)
          gotCart == CanFetch(e) /\ o.cart
          callsG == IF CanFetch(e) THEN {<<"getCart", o.cart>>} ELSE {}
          gotUrl == gotCart /\ o.url
          callsQ == IF gotCart THEN {<<"getCheckoutUrl", o.url>>} ELSE {}
          calls == synced.calls \cup callsG \cup callsQ
      IN  IF gotUrl
          THEN Outcome(synced.carts, synced.created,
                       Url(cart.shopifyCartId, cart.discountCode), calls)
          ELSE Outcome(synced.carts, synced.created, NoUrl, calls)

(* the ternary of the status write with its test on the wrong status: a    *)
(* cart that got the final message is sent back to NOTIFIED_FIRST          *)
NotifiedStatusFlipped(st) ==
    IF st = "NOTIFIED_FIRST" THEN "NOTIFIED_FINAL" ELSE "NOTIFIED_FIRST"

(* the status a successful send writes, from the status it read *)
NotifiedStatus(st) ==
    IF st = "ABANDONED" THEN "NOTIFIED_FIRST" ELSE "NOTIFIED_FINAL"

(* sendCartRecoveryMessage testing the phone number and the messaging      *)
(* credentials after it has asked for the recovery URL                     *)
sendCartRecoveryMessageLateGuard(e, cs, n, c, o, t) ==
    IF ~Exists(cs, c) THEN Outcome(cs, n, FALSE, {})
    ELSE
      LET cart == cs[c]
          got == getCartRecoveryUrl(e, cs, n, c, o)
      IN  IF \/ cs[c].customerPhone = Null
             \/ ~Truthy(Store(cs[c].storeId).whatsappPhoneNumberId)
             \/ ~Truthy(Store(cs[c].storeId).whatsappAccessToken)
          THEN Outcome(got.carts, got.created, FALSE, got.calls)
          ELSE IF got.ret = NoUrl THEN Outcome(got.carts, got.created, FALSE, got.calls)
          ELSE IF ~o.whatsapp
               THEN Outcome(got.carts, got.created, FALSE,
                            got.calls \cup {<<"whatsapp", FALSE>>})
          ELSE IF ~o.write
               THEN Outcome(got.carts, got.created, FALSE,
                            got.calls \cup {<<"whatsapp", TRUE>>})
               ELSE Outcome([got.carts EXCEPT
                                ![c].lastNotifiedAt = t,
                                ![c].recoveryStatus = NotifiedStatus(cart.recoveryStatus)],
                            got.created, TRUE, got.calls \cup {<<"whatsapp", TRUE>>})

(* sendCartRecoveryMessage stamping the cart before it calls WhatsApp: a   *)
(* refused message leaves the new timestamp                                *)
sendCartRecoveryMessageStampFirst(e, cs, n, c, o, t) ==
    IF ~Exists(cs, c) THEN Outcome(cs, n, FALSE, {})
    ELSE IF \/ cs[c].customerPhone = Null
            \/ ~Truthy(Store(cs[c].storeId).whatsappPhoneNumberId)
            \/ ~Truthy(Store(cs[c].storeId).whatsappAccessToken)
         THEN Outcome(cs, n, FALSE, {})
    ELSE
      LET cart == cs[c]
          got == getCartRecoveryUrl(e, cs, n, c, o)
      IN  IF got.ret = NoUrl THEN Outcome(got.carts, got.created, FALSE, got.calls)
          ELSE IF ~o.whatsapp
               THEN Outcome([got.carts EXCEPT ![c].lastNotifiedAt = t],
                            got.created, FALSE,
                            got.calls \cup {<<"whatsapp", FALSE>>})
          ELSE IF ~o.write
               THEN Outcome(got.carts, got.created, FALSE,
                            got.calls \cup {<<"whatsapp", TRUE>>})
               ELSE Outcome([got.carts EXCEPT
                                ![c].lastNotifiedAt = t,
                                ![c].recoveryStatus = NotifiedStatus(cart.recoveryStatus)],
                            got.created, TRUE, got.calls \cup {<<"whatsapp", TRUE>>})

(* sendCartRecoveryMessage(cartId), at time t *)
sendCartRecoveryMessage(e, cs, n, c, o, t) ==
    IF ~Exists(cs, c) THEN Outcome(cs, n, FALSE, {})
    ELSE IF \/ cs[c].customerPhone = Null
            \/ ~Truthy(Store(cs[c].storeId).whatsappPhoneNumberId)
            \/ ~Truthy(Store(cs[c].storeId).whatsappAccessToken)
         THEN Outcome(cs, n, FALSE, {})
    ELSE
      LET cart == cs[c]
          got == getCartRecoveryUrl(e, cs, n, c, o)
      IN  IF got.ret = NoUrl THEN Outcome(got.carts, got.created, FALSE, got.calls)
          ELSE IF ~o.whatsapp
               THEN Outcome(got.carts, got.created, FALSE,
                            got.calls \cup {<<"whatsapp", FALSE>>})
          ELSE IF ~o.write
               THEN Outcome(got.carts, got.created, FALSE,
                            got.calls \cup {<<"whatsapp", TRUE>>})
               ELSE Outcome([got.carts EXCEPT
                                ![c].lastNotifiedAt = t,
                                ![c].recoveryStatus = NotifiedStatus(cart.recoveryStatus)],
                            got.created, TRUE, got.calls \cup {<<"whatsapp", TRUE>>})

(* processRecovery refusing a cart that is LOST *)
processRecoveryUnlessLost(cs, n, c, t) ==
    IF ~Exists(cs, c) THEN Outcome(cs, n, FALSE, {})
    ELSE IF cs[c].recoveryStatus = "LOST" THEN Outcome(cs, n, FALSE, {})
    ELSE Outcome([cs EXCEPT ![c].recoveryStatus = "RECOVERED", ![c].recoveredAt = t],
                 n, TRUE, {})

(* processRecovery(cartId), at time t: update of a missing row throws *)
processRecovery(cs, n, c, t) ==
    IF ~Exists(cs, c) THEN Outcome(cs, n, FALSE, {})
    ELSE Outcome([cs EXCEPT ![c].recoveryStatus = "RECOVERED", ![c].recoveredAt = t],
                 n, TRUE, {})

(* the lookup made on the cart's own id instead of its remote id *)
ImportedAlreadyById(s, cs, id) ==
    \E c \in DOMAIN cs : c = id /\ cs[c].storeId = s

(* cart.findFirst({shopifyCartId, storeId}) *)
ImportedAlready(s, cs, id) ==
    \E c \in DOMAIN cs : cs[c].shopifyCartId = id /\ cs[c].storeId = s

(* the loop creating a cart for every checkout not imported yet, also    *)
(* when none of its line items resolves                                    *)
RECURSIVE ImportLoopKeepEmpty(_, _, _, _)
ImportLoopKeepEmpty(s, cs, batch, count) ==
    IF batch = <<>> THEN [carts |-> cs, count |-> count]
    ELSE
      LET checkout == Checkout(Head(batch))
          cartItems == mapShopifyItemsToMetastore(s, checkout.line_items)
      IN  IF ImportedAlready(s, cs, checkout.id)
          THEN ImportLoopKeepEmpty(s, cs, Tail(batch), count)
          ELSE ImportLoopKeepEmpty(s,
                 Append(cs, [ NewCart(s, checkout.phone, cartItems,
                                      ItemsTotal(cartItems), Null, 0,
                                      checkout.updated_at)
                              EXCEPT !.shopifyCartId = checkout.id,
                                     !.recoveryStatus = "ABANDONED",
                                     !.abandonedAt = checkout.created_at ]),
                 Tail(batch), count + 1)

(* the loop stamping the abandonment with the checkout's update time *)
RECURSIVE ImportLoopUpdateTime(_, _, _, _)
ImportLoopUpdateTime(s, cs, batch, count) ==
    IF batch = <<>> THEN [carts |-> cs, count |-> count]
    ELSE
      LET checkout == Checkout(Head(batch))
          cartItems == mapShopifyItemsToMetastore(s, checkout.line_items)
      IN  IF ImportedAlready(s, cs, checkout.id) \/ cartItems = <<>>
          THEN ImportLoopUpdateTime(s, cs, Tail(batch), count)
          ELSE ImportLoopUpdateTime(s,
                 Append(cs, [ NewCart(s, checkout.phone, cartItems,
                                      ItemsTotal(cartItems), Null, 0,
                                      checkout.updated_at)
                              EXCEPT !.shopifyCartId = checkout.id,
                                     !.recoveryStatus = "ABANDONED",
                                     !.abandonedAt = checkout.updated_at ]),
                 Tail(batch), count + 1)

(* the loop of importAbandonedCarts over the fetched checkouts *)
RECURSIVE ImportLoop(_, _, _, _)
ImportLoop(s, cs, batch, count) ==
    IF batch = <<>> THEN [carts |-> cs, count |-> count]
    ELSE
      LET checkout == Checkout(Head(batch))
          cartItems == mapShopifyItemsToMetastore(s, checkout.line_items)
      IN  IF ImportedAlready(s, cs, checkout.id) \/ cartItems = <<>>
          THEN ImportLoop(s, cs, Tail(batch), count)
          ELSE ImportLoop(s,
                 Append(cs, [ NewCart(s, checkout.phone, cartItems,
                                      ItemsTotal(cartItems), Null, 0,
                                      checkout.updated_at)
                              EXCEPT !.shopifyCartId = checkout.id,
                                     !.recoveryStatus = "ABANDONED",
                                     !.abandonedAt = checkout.created_at ]),
                 Tail(batch), count + 1)

(* importAbandonedCarts(): batch is what the platform answers *)
importAbandonedCarts(e, cs, n, batch) ==
    IF ~CanFetch(e) THEN Outcome(cs, n, 0, {})
    ELSE LET r == ImportLoop(e.storeId, cs, batch, 0)
         IN  Outcome(r.carts, n, r.count, {<<"checkouts", TRUE>>})

(* importAbandonedCarts() when the record store throws at the query for   *)
(* the k-th fetched checkout: the carts of the checkouts before it are     *)
(* created, the catch returns 0                                            *)
importAbandonedCartsThrowing(e, cs, n, batch, k) ==
    LET r == ImportLoop(e.storeId, cs, SubSeq(batch, 1, k - 1), 0)
    IN  Outcome(r.carts, n, 0, {<<"checkouts", TRUE>>})

CountStatus(s, cs, st) ==
    Cardinality({c \in DOMAIN cs : cs[c].storeId = s /\ cs[c].recoveryStatus = st})

(* the revenue summed without subtracting the discount *)
RECURSIVE RevenueGross(_, _, _)
RevenueGross(s, cs, i) ==
    IF i > Len(cs) THEN 0
    ELSE (IF cs[i].storeId = s /\ cs[i].recoveryStatus = "RECOVERED"
          THEN cs[i].total
          ELSE 0) + RevenueGross(s, cs, i + 1)

RECURSIVE Revenue(_, _, _)
Revenue(s, cs, i) ==
    IF i > Len(cs) THEN 0
    ELSE (IF cs[i].storeId = s /\ cs[i].recoveryStatus = "RECOVERED"
          THEN (IF cs[i].discountAmount # 0 THEN cs[i].total - cs[i].discountAmount
                ELSE cs[i].total)
          ELSE 0) + Revenue(s, cs, i + 1)

(* getRecoveryStats with the rate taken over the carts that were notified   *)
(* or recovered                                                            *)
getRecoveryStatsOfContacted(e, cs) ==
    LET s == e.storeId
        notified == CountStatus(s, cs, "NOTIFIED_FIRST") + CountStatus(s, cs, "NOTIFIED_FINAL")
        recovered == CountStatus(s, cs, "RECOVERED")
    IN  [ abandoned |-> CountStatus(s, cs, "ABANDONED"),
          notified |-> notified,
          recovered |-> recovered,
          lost |-> CountStatus(s, cs, "LOST"),
          recoveryRate |-> IF notified > 0 THEN <<recovered * 100, notified + recovered>>
                           ELSE <<0, 1>>,
          revenue |-> Revenue(s, cs, 1) ]

(* getRecoveryStats(); the rate is kept as the fraction <<numerator,      *)
(* denominator>> it is computed from                                       *)
getRecoveryStats(e, cs) ==
    LET s == e.storeId
        notified == CountStatus(s, cs, "NOTIFIED_FIRST") + CountStatus(s, cs, "NOTIFIED_FINAL")
        recovered == CountStatus(s, cs, "RECOVERED")
    IN  [ abandoned |-> CountStatus(s, cs, "ABANDONED"),
          notified |-> notified,
          recovered |-> recovered,
          lost |-> CountStatus(s, cs, "LOST"),
          recoveryRate |-> IF notified > 0 THEN <<recovered * 100, notified>>
                           ELSE <<0, 1>>,
          revenue |-> Revenue(s, cs, 1) ]

---------------------------------------------------------------------------
(* The scan pass: cron GET, and the batch branch of POST /api/carts/recovery *)

NoResults ==
    [ stores |-> 0, imported |-> 0, abandoned |-> 0, notified |-> 0,
      followUp |-> 0, recovered |-> 0, lost |-> 0, errors |-> 0 ]

(* The discount sentence of the recovery message, by what stands before    *)
(* "% off": no sentence about a discount ("question"), nothing             *)
(* ("omitted"), a rounded number ("percent") or the text JavaScript prints *)
(* for a division of a non-zero number by zero ("Infinity").               *)
Figure(kind, value) == [kind |-> kind, value |-> value]
NoFigure == Figure("question", 0)

(* (x / y * 100).toFixed(0) for positive x and y: the nearest integer *)
PercentFixed(x, y) == (200 * x + y) \div (2 * y)

(* the template of sendCartRecoveryMessage: cart.discountCode ? `Use code   *)
(* ... for ${cart.discountAmount ? (discountAmount/total*100).toFixed(0) :  *)
(* ""}% off!` : "Would you like to complete your purchase?"                 *)
DiscountLine(cart) ==
    IF cart.discountCode = Null THEN NoFigure
    ELSE IF cart.discountAmount = 0 THEN Figure("omitted", 0)
    ELSE IF cart.total = 0 THEN Figure("Infinity", 0)
    ELSE Figure("percent", PercentFixed(cart.discountAmount, cart.total))

(* A return value, by its type: a boolean, a remote id or null, a count, a *)
(* URL or null, the statistics, the results of a pass, the status of an    *)
(* HTTP response, a list of remote lines or of local items.                *)
NoReturn ==
    [ ok |-> FALSE, id |-> NoId, count |-> 0, url |-> NoUrl,
      stats |-> getRecoveryStats(NoService, <<>>), results |-> NoResults,
      status |-> 0, lines |-> <<>>, items |-> <<>>, figure |-> NoFigure ]

Returned(op, ret) ==
    CASE op \in {"initialize", "send", "recover", "detectCart", "followUpCart",
                 "postBatch", "tick"} -> [NoReturn EXCEPT !.ok = ret]
      [] op = "sync" -> [NoReturn EXCEPT !.id = ret]
      [] op = "url" -> [NoReturn EXCEPT !.url = ret]
      [] op = "stats" -> [NoReturn EXCEPT !.stats = ret]
      [] op = "respond" -> [NoReturn EXCEPT !.results = ret]
      [] op = "manual" -> [NoReturn EXCEPT !.status = ret.status, !.url = ret.url]
      [] op = "mapItems" -> [NoReturn EXCEPT !.lines = ret]
      [] op = "roundTrip" -> [NoReturn EXCEPT !.items = ret]
      [] op = "message" -> [NoReturn EXCEPT !.figure = ret]
      [] OTHER -> [NoReturn EXCEPT !.count = ret]

BatchOps == {"import", "cronImport"}

(* the operations given a cart id and a discount code *)
CodeOps == {"manual"}

(* The record of a step: the operation, the engine, the cart id or the     *)
(* fetched checkouts it was given, what it returned and the remote calls   *)
(* it made.  An operation that is not watched leaves the same record       *)
(* whatever it did and returned.                                           *)
(* thrown: the query of the operation that threw, if one did; raised: the  *)
(* error left the operation                                                *)
NoEvent ==
    [op |-> "other", svc |-> NoService, cart |-> 0, batch |-> <<>>,
     code |-> Null, ret |-> NoReturn, calls |-> {}, thrown |-> Null,
     raised |-> FALSE]

Event(op, e, arg, ret, calls) ==
    IF <<op, e.shopifyStoreUrl>> \in watch
    THEN [ op |-> op, svc |-> e,
           cart |-> IF op \in BatchOps THEN 0
                    ELSE IF op \in CodeOps THEN arg[1] ELSE arg,
           batch |-> IF op \in BatchOps THEN arg ELSE <<>>,
           code |-> IF op \in CodeOps THEN arg[2] ELSE Null,
           ret |-> Returned(op, ret), calls |-> calls, thrown |-> Null,
           raised |-> FALSE ]
    ELSE NoEvent

(* The queries a public method of the engine sends to the record store     *)
(* before it has written anything or changed anything remote, each with    *)
(* its line; and the lines of the method's try and catch.                  *)
Queries(op) ==
    CASE op = "initialize" -> {<<"store.findUnique", 52>>}
      [] op = "sync" -> {<<"cart.findUnique", 321>>}
      [] op = "import" -> {<<"cart.findFirst", 405>>}
      [] op = "url" -> {<<"cart.findUnique", 505>>}
      [] op = "send" -> {<<"cart.findUnique", 589>>}
      [] op = "recover" -> {<<"cart.update", 675>>}
      [] op = "stats" -> { <<"cart.count", 703>>, <<"cart.count", 710>>,
                           <<"cart.count", 717>>, <<"cart.count", 724>>,
                           <<"cart.count", 731>>, <<"cart.findMany", 743>> }
      [] OTHER -> {}

(* getRecoveryStats with its try block ending before the query of the      *)
(* recovered carts                                                         *)
TryBlockStatsOpen(op) ==
    CASE op = "initialize" -> <<50, 68>>
      [] op = "sync" -> <<319, 361>>
      [] op = "import" -> <<399, 447>>
      [] op = "url" -> <<504, 532>>
      [] op = "send" -> <<588, 663>>
      [] op = "recover" -> <<673, 684>>
      [] op = "stats" -> <<701, 742>>

TryBlock(op) ==
    CASE op = "initialize" -> <<50, 68>>
      [] op = "sync" -> <<319, 361>>
      [] op = "import" -> <<399, 447>>
      [] op = "url" -> <<504, 532>>
      [] op = "send" -> <<588, 663>>
      [] op = "recover" -> <<673, 684>>
      [] op = "stats" -> <<701, 768>>

(* what the catch block of the method returns *)
CatchReturn(op) ==
    CASE op \in {"initialize", "send", "recover"} -> FALSE
      [] op = "sync" -> NoId
      [] op = "import" -> 0
      [] op = "url" -> NoUrl
      [] op = "stats" -> [ abandoned |-> 0, notified |-> 0, recovered |-> 0,
                           lost |-> 0, recoveryRate |-> <<0, 1>>, revenue |-> 0 ]

(* an error thrown at a line is caught by the method when the line is      *)
(* inside the method's try block; no catch block of the engine throws      *)
Caught_(op, line) == TryBlock(op)[1] < line /\ line < TryBlock(op)[2]

(* the record of a public method one of whose queries threw *)
Thrown(op, e, arg, query) ==
    IF <<op, e.shopifyStoreUrl>> \in watch
    THEN [ Event(op, e, arg, CatchReturn(op), {}) EXCEPT
             !.thrown = query[1],
             !.raised = ~Caught_(op, query[2]) ]
    ELSE NoEvent

(* the queries of a call that can throw in this run; importAbandonedCarts *)
(* sends its first query for the first checkout it fetched                 *)
Throws(op, e, arg) ==
    IF ~env.faults THEN {}
    ELSE IF op = "import" /\ (~CanFetch(e) \/ arg = <<>>) THEN {}
    ELSE Queries(op)

(* done: the stores of the pass whose five phases have all run; failed:    *)
(* the stores of the pass that ended in the store's catch or did not        *)
(* initialize; repeat: the pass was requested as the pass before it        *)
(* returned                                                                *)
IdleScan ==
    [ kind |-> "none", pc |-> "idle", stores |-> <<>>, queue |-> <<>>,
      startTime |-> 0, results |-> NoResults, done |-> {}, failed |-> {},
      repeat |-> FALSE ]

(* the outcomes of a query the pass sends to the record store: it throws   *)
(* (TRUE) or answers (FALSE)                                               *)
Faults == IF env.faults THEN BOOLEAN ELSE {FALSE}

Running == scan.pc # "idle"

(* the engine a pass builds for a store: new CartSyncService(id) + initialize() *)
ScanService(s) == Initialized(NewService(s))

(* a timestamp column compared with `lt: new Date(Date.now() - d)`; a null *)
(* column matches no comparison                                            *)
OlderThan(ts, t, d) == ts # NoTime /\ ts < t - d

Indices(cs) == [i \in 1 .. Len(cs) |-> i]

(* store.findMany({isActive, shopifyAccessToken: not null, shopifyStoreUrl: not null}) *)
EligibleStore(s) ==
    /\ Store(s).isActive
    /\ Store(s).shopifyAccessToken # Null
    /\ Store(s).shopifyStoreUrl # Null

(* the detect query selecting on the status it is about to write *)
AbandonedMatchMarked(s, cart, t) ==
    /\ cart.storeId = s
    /\ OlderThan(cart.updatedAt, t, AbandonedAfter)
    /\ cart.recoveryStatus = "ABANDONED"
    /\ cart.customerPhone # Null

(* the query of the detect phase *)
AbandonedMatch(s, cart, t) ==
    /\ cart.storeId = s
    /\ OlderThan(cart.updatedAt, t, AbandonedAfter)
    /\ cart.recoveryStatus = "NONE"
    /\ cart.customerPhone # Null

(* the follow-up query without its lastNotifiedAt condition *)
FollowUpMatchAnyAge(s, cart, t) ==
    /\ cart.storeId = s
    /\ cart.recoveryStatus = "NOTIFIED_FIRST"
    /\ cart.customerPhone # Null

(* the query of the follow-up phase *)
FollowUpMatch(s, cart, t) ==
    /\ cart.storeId = s
    /\ cart.recoveryStatus = "NOTIFIED_FIRST"
    /\ OlderThan(cart.lastNotifiedAt, t, FollowUpAfter)
    /\ cart.customerPhone # Null

(* the filter with `lte` in place of `lt`: lost at exactly 48 hours *)
LostMatchInclusive(s, cart, t) ==
    /\ cart.storeId = s
    /\ cart.recoveryStatus = "NOTIFIED_FINAL"
    /\ cart.lastNotifiedAt # NoTime
    /\ cart.lastNotifiedAt <= t - LostAfter

(* the filter without its store: the updateMany of one store's pass marks *)
(* the carts of every store                                                *)
LostMatchAnyStore(s, cart, t) ==
    /\ cart.recoveryStatus = "NOTIFIED_FINAL"
    /\ OlderThan(cart.lastNotifiedAt, t, LostAfter)

(* the filter of the updateMany that marks carts lost *)
LostMatch(s, cart, t) ==
    /\ cart.storeId = s
    /\ cart.recoveryStatus = "NOTIFIED_FINAL"
    /\ OlderThan(cart.lastNotifiedAt, t, LostAfter)

AbandonedCarts(s, cs, t) ==
    SelectSeq(Indices(cs), LAMBDA c : AbandonedMatch(s, cs[c], t))

FollowUpCarts(s, cs, t) ==
    SelectSeq(Indices(cs), LAMBDA c : FollowUpMatch(s, cs[c], t))

MarkLost(s, cs, t) ==
    [c \in DOMAIN cs |->
        IF LostMatch(s, cs[c], t) THEN [cs[c] EXCEPT !.recoveryStatus = "LOST"]
        ELSE cs[c]]

(* the lost count taken over every cart that got the final message *)
LostCountAnyAge(s, cs, t) ==
    Cardinality({c \in DOMAIN cs : /\ cs[c].storeId = s
                                   /\ cs[c].recoveryStatus = "NOTIFIED_FINAL"})

LostCount(s, cs, t) ==
    Cardinality({c \in DOMAIN cs : LostMatch(s, cs[c], t)})

(* the update of the detect loop as a compare-and-swap on the status the   *)
(* query selected on                                                       *)
MarkAbandonedIfNone(cs, c, t) ==
    IF cs[c].recoveryStatus = "NONE"
    THEN [cs EXCEPT ![c].abandonedAt = t, ![c].recoveryStatus = "ABANDONED"]
    ELSE cs

(* cart.update({abandonedAt: new Date(), recoveryStatus: "ABANDONED"}) *)
MarkAbandoned(cs, c, t) ==
    [cs EXCEPT ![c].abandonedAt = t, ![c].recoveryStatus = "ABANDONED"]

(* GET: the stores query and the zeroed results; a query that throws is    *)
(* caught by the handler's outer catch                                     *)
CronPass(f) ==
    LET stores == IF f THEN <<>> ELSE SelectSeq(StoreOrder, EligibleStore)
    IN  [ IdleScan EXCEPT
            !.kind = "cron",
            !.pc = IF f THEN "failed"
                   ELSE IF stores = <<>> THEN "respond" ELSE "import",
            !.stores = stores, !.startTime = now,
            !.results.stores = Len(stores) ]

CronStart ==
    /\ ~Running
    /\ \E f \in Faults :
         /\ scan' = CronPass(f)
         /\ ev' = Event("cronStart", NoService, 0, Len(CronPass(f).stores), {})
    /\ UNCHANGED <<carts, now, created, watch, env, suspended, delivered, flight>>

(* what follows the last phase of a store *)
AfterStore(sc) ==
    [sc EXCEPT !.stores = Tail(sc.stores), !.queue = <<>>,
               !.pc = IF Tail(sc.stores) = <<>> THEN "respond" ELSE "import"]

(* a pass without the catch around a store: the error ends the pass *)
CaughtByHandler(sc) ==
    [sc EXCEPT !.pc = "failed", !.queue = <<>>, !.stores = <<>>]

(* an error raised in a phase of a store.  GET: the catch around the store *)
(* counts it and the loop goes on with the next store.  POST: the          *)
(* handler's catch answers 500.                                            *)
Caught(sc) ==
    IF sc.kind = "cron"
    THEN AfterStore([sc EXCEPT !.results.errors = @ + 1])
    ELSE [sc EXCEPT !.pc = "failed", !.queue = <<>>, !.stores = <<>>]

(* what a call of importAbandonedCarts() for a fetched list can do and      *)
(* return: the whole loop, or, with a record store that can throw, the     *)
(* loop up to any checkout of the list                                     *)
ImportOutcomes(e, cs, n, batch) ==
    {importAbandonedCarts(e, cs, n, batch)}
      \cup IF env.faults /\ CanFetch(e)
           THEN {importAbandonedCartsThrowing(e, cs, n, batch, k) : k \in DOMAIN batch}
           ELSE {}

(* the store of the pass ends in an error *)
StoreFailed(sc) == Caught([sc EXCEPT !.failed = @ \cup {Head(sc.stores)}])

(* GET: new CartSyncService(store.id).initialize(), then                 *)
(* 1. import abandoned carts                                               *)
CronImport ==
    /\ scan.pc = "import"
    /\ LET s == Head(scan.stores)
       IN  IF ~InitializeOk(s)
           THEN /\ scan' = AfterStore([scan EXCEPT !.results.errors = @ + 1,
                                                   !.failed = @ \cup {s}])
                /\ ev' = Event("cronImport", ScanService(s), <<>>, 0, {})
                /\ UNCHANGED carts
           ELSE \E batch \in env.checkouts[s] :
                \E r \in ImportOutcomes(ScanService(s), carts, created, batch) :
                      /\ Len(r.carts) <= MaxCarts
                      /\ carts' = r.carts
                      /\ scan' = [scan EXCEPT !.pc = "detect",
                                              !.results.imported = @ + r.ret]
                      /\ ev' = Event("cronImport", ScanService(s), batch, r.ret, r.calls)
    /\ UNCHANGED <<now, created, watch, env, suspended, delivered, flight>>

(* 2. the detect query *)
DetectQuery ==
    /\ scan.pc = "detect"
    /\ \E f \in Faults :
         LET s == Head(scan.stores)
             q == AbandonedCarts(s, carts, now)
         IN  IF f
             THEN /\ scan' = StoreFailed(scan)
                  /\ ev' = Event("detectQuery", ScanService(s), 0, 0, {})
             ELSE /\ scan' = [scan EXCEPT
                                !.queue = q,
                                !.pc = IF q = <<>> THEN "followUp" ELSE "detectCart",
                                !.results.abandoned = @ + Len(q)]
                  /\ ev' = Event("detectQuery", ScanService(s), 0, Len(q), {})
    /\ UNCHANGED <<carts, now, created, watch, env, suspended, delivered, flight>>

(* the detect loop after one cart.  POST: the carts are the promises of a  *)
(* Promise.all, which rejects when the update of one of them threw         *)
AfterDetectCart(sc) ==
    [sc EXCEPT !.queue = Tail(@),
               !.pc = IF Tail(sc.queue) # <<>> THEN @
                      ELSE IF sc.kind = "post" /\ sc.failed # {} THEN "failed"
                      ELSE "followUp",
               !.stores = IF Tail(sc.queue) = <<>> /\ sc.kind = "post" /\ sc.failed # {}
                          THEN <<>> ELSE @]

(* the cart.update of the detect loop threw.  GET: the catch around the    *)
(* cart counts the error.  POST: the promise of the cart rejects.          *)
CartFailed(sc) ==
    IF sc.kind = "cron"
    THEN AfterDetectCart([sc EXCEPT !.results.errors = @ + 1])
    ELSE AfterDetectCart([sc EXCEPT !.failed = @ \cup {Head(sc.stores)}])

(* the count of the messages accepted by WhatsApp, after a send of a pass  *)
(* on cart c that made the remote calls `calls`                            *)
Delivered(c, calls) ==
    IF env.count /\ <<"whatsapp", TRUE>> \in calls
    THEN [delivered EXCEPT ![c] = @ + 1]
    ELSE delivered

(* 2. one cart of the detect loop: mark it abandoned, send the first message *)
DetectCart ==
    /\ scan.pc = "detectCart"
    /\ \E f \in Faults :
         IF f
         THEN /\ scan' = CartFailed(scan)
              /\ ev' = Event("detectCart", ScanService(Head(scan.stores)),
                             Head(scan.queue), FALSE, {})
              /\ UNCHANGED <<carts, created, delivered, flight>>
         ELSE \E o \in SendOracle(ScanService(Head(scan.stores)),
                                  MarkAbandoned(carts, Head(scan.queue), now),
                                  Head(scan.queue)) :
                LET s == Head(scan.stores)
                    c == Head(scan.queue)
                    marked == MarkAbandoned(carts, c, now)
                    r == sendCartRecoveryMessage(ScanService(s), marked, created, c, o, now)
                IN  /\ carts' = r.carts
                    /\ created' = r.created
                    /\ scan' = [AfterDetectCart(scan) EXCEPT
                                  !.results.notified = IF r.ret THEN @ + 1 ELSE @]
                    /\ ev' = Event("detectCart", ScanService(s), c, r.ret, r.calls)
                    /\ delivered' = Delivered(c, r.calls)
                    /\ delivered'[c] <= MaxMessages
    /\ UNCHANGED <<now, watch, env, suspended, flight>>

(* 3. the follow-up query *)
FollowUpQuery ==
    /\ scan.pc = "followUp"
    /\ \E f \in Faults :
         LET s == Head(scan.stores)
             q == FollowUpCarts(s, carts, now)
         IN  IF f
             THEN /\ scan' = StoreFailed(scan)
                  /\ ev' = Event("followUpQuery", ScanService(s), 0, 0, {})
             ELSE /\ scan' = [scan EXCEPT
                                !.queue = q,
                                !.pc = IF q = <<>> THEN "expire" ELSE "followUpCart",
                                !.results.followUp = @ + Len(q)]
                  /\ ev' = Event("followUpQuery", ScanService(s), 0, Len(q), {})
    /\ UNCHANGED <<carts, now, created, watch, env, suspended, delivered, flight>>

(* 3. one cart of the follow-up loop: send the final message *)
FollowUpCart ==
    /\ scan.pc = "followUpCart"
    /\ \E o \in SendOracle(ScanService(Head(scan.stores)), carts, Head(scan.queue)) :
         LET s == Head(scan.stores)
             c == Head(scan.queue)
             r == sendCartRecoveryMessage(ScanService(s), carts, created, c, o, now)
         IN  /\ carts' = r.carts
             /\ created' = r.created
             /\ scan' = [scan EXCEPT
                           !.queue = Tail(@),
                           !.pc = IF Tail(scan.queue) = <<>> THEN "expire" ELSE @,
                           !.results.notified = IF r.ret THEN @ + 1 ELSE @]
             /\ ev' = Event("followUpCart", ScanService(s), c, r.ret, r.calls)
             /\ delivered' = Delivered(c, r.calls)
             /\ delivered'[c] <= MaxMessages
    /\ UNCHANGED <<now, watch, env, suspended, flight>>

(* 4. cart.updateMany: mark lost; GET: 5. the recovery stats; then the      *)
(* next store, or the response                                             *)
Expire ==
    /\ scan.pc = "expire"
    /\ \E f \in Faults :
         LET s == Head(scan.stores)
             k == LostCount(s, carts, now)
             after == MarkLost(s, carts, now)
             stats == getRecoveryStats(ScanService(s), after)
         IN  IF f
             THEN /\ carts' = carts
                  /\ scan' = StoreFailed(scan)
                  /\ ev' = Event("expire", ScanService(s), 0, 0, {})
             ELSE /\ carts' = after
                  /\ scan' = AfterStore([scan EXCEPT
                                !.results.lost = @ + k,
                                !.results.recovered =
                                    IF scan.kind = "cron" THEN @ + stats.recovered ELSE @,
                                !.done = @ \cup {s}])
                  /\ ev' = Event("expire", ScanService(s), 0, k, {})
    /\ UNCHANGED <<now, created, watch, env, suspended, delivered, flight>>

(* POST {storeId}: initialize, then the batch of that one store *)
PostBatch(s) ==
    /\ ~Running
    /\ scan' = IF InitializeOk(s)
               THEN [ IdleScan EXCEPT !.kind = "post", !.pc = "detect",
                                      !.stores = <<s>>, !.startTime = now ]
               ELSE [ IdleScan EXCEPT !.kind = "post", !.pc = "failed",
                                      !.startTime = now ]
    /\ ev' = Event("postBatch", ScanService(s), 0, InitializeOk(s), {})
    /\ UNCHANGED <<carts, now, created, watch, env, suspended, delivered, flight>>

(* the response: the run summary (GET), the lists and the lost count       *)
(* (POST), or the error response with status 500                           *)
Respond ==
    /\ scan.pc \in {"respond", "failed"}
    /\ scan' = IdleScan
    /\ ev' = IF scan.pc = "failed"
             THEN Event("respondError", NoService, 0, 500, {})
             ELSE Event("respond", NoService, 0, scan.results, {})
    /\ UNCHANGED <<carts, now, created, watch, env, suspended, delivered, flight>>

(* GET requested twice in a row: the first pass returns its summary and    *)
(* the second pass starts at once, with no request and no clock step in    *)
(* between                                                                 *)
CronAgain ==
    /\ scan.kind = "cron"
    /\ scan.pc = "respond"
    /\ ~scan.repeat
    /\ \E f \in Faults : scan' = [CronPass(f) EXCEPT !.repeat = TRUE]
    /\ ev' = Event("respond", NoService, 0, scan.results, {})
    /\ UNCHANGED <<carts, now, created, watch, env, suspended, delivered, flight>>

---------------------------------------------------------------------------
(* Calls of the operations of a CartSyncService object *)

(* The objects a caller can hold: constructed, then initialize() called,   *)
(* which leaves the credential fields as the constructor left them (unset) *)
(* when it fails.  The routes return an error when initialize() fails; a   *)
(* caller of the class can go on with the object.                          *)
Services == {Initialized(NewService(s)) : s \in StoreIds}

(* The objects used for the operations addressed by cart id, which never   *)
(* read the object's storeId: one initialized, one not.                    *)
CartServices == {e \in Services : e.storeId # "s2"}

(* new CartSyncService(s).initialize() *)
Initialize(s) ==
    /\ ~Running
    /\ \/ ev' = Event("initialize", Initialized(NewService(s)), 0, InitializeOk(s), {})
       \/ \E query \in Throws("initialize", NewService(s), 0) :
             ev' = Thrown("initialize", NewService(s), 0, query)
    /\ UNCHANGED <<carts, now, created, scan, watch, env, suspended, delivered, flight>>

(* the method returns r, or one of its queries throws *)
Apply(op, e, arg, r) ==
    /\ \/ /\ carts' = r.carts
          /\ created' = r.created
          /\ ev' = Event(op, e, arg, r.ret, r.calls)
       \/ \E query \in Throws(op, e, arg) :
             /\ ev' = Thrown(op, e, arg, query)
             /\ UNCHANGED <<carts, created>>
    /\ UNCHANGED <<now, scan, watch, env, suspended, delivered, flight>>

SyncCart(e, c) ==
    /\ ~Running
    /\ \E o \in SyncOracle(e, carts, c) :
         Apply("sync", e, c, syncCartToShopify(e, carts, created, c, o))

ImportCarts(e) ==
    /\ ~Running
    /\ \E batch \in env.checkouts[e.storeId] :
         \/ LET r == importAbandonedCarts(e, carts, created, batch)
            IN  /\ Len(r.carts) <= MaxCarts
                /\ Apply("import", e, batch, r)
         \/ \E k \in 2 .. Len(batch), query \in Throws("import", e, batch) :
               LET r == importAbandonedCartsThrowing(e, carts, created, batch, k)
               IN  /\ Len(r.carts) <= MaxCarts
                   /\ carts' = r.carts
                   /\ ev' = Thrown("import", e, batch, query)
                   /\ UNCHANGED <<now, created, scan, watch, env, suspended,
                                  delivered, flight>>

RecoveryUrl(e, c) ==
    /\ ~Running
    /\ \E o \in UrlOracle(e, carts, c) :
         Apply("url", e, c, getCartRecoveryUrl(e, carts, created, c, o))

SendMessage(e, c) ==
    /\ ~Running
    /\ \E o \in SendOracle(e, carts, c) :
         Apply("send", e, c, sendCartRecoveryMessage(e, carts, created, c, o, now))

Recover(e, c) ==
    /\ ~Running
    /\ Apply("recover", e, c, processRecovery(carts, created, c, now))

(* no send is waiting at its cart.update *)
NoFlight ==
    [active |-> FALSE, svc |-> NoService, cart |-> 0, status |-> "NONE", calls |-> {}]

(* sendCartRecoveryMessage(cartId) from its read of the cart up to the      *)
(* answer of WhatsApp, when the answer is ok: the call keeps the cart row   *)
(* it read and stands before its cart.update.  A call that returns false   *)
(* writes no status and is the step SendMessage.                           *)
SendRead(e, c) ==
    /\ ~Running
    /\ ~flight.active
    /\ \E o \in SendOracle(e, carts, c) :
         LET r == sendCartRecoveryMessage(e, carts, created, c, o, now)
             got == getCartRecoveryUrl(e, carts, created, c, o)
         IN  /\ r.ret
             /\ carts' = got.carts
             /\ created' = got.created
             /\ flight' = [active |-> TRUE, svc |-> e, cart |-> c,
                           status |-> carts[c].recoveryStatus, calls |-> r.calls]
    /\ ev' = NoEvent
    /\ UNCHANGED <<now, scan, watch, env, suspended, delivered>>

(* the cart.update of the call in flight, with the status computed from    *)
(* the row the call read, and its return *)
SendWrite ==
    /\ ~Running
    /\ flight.active
    /\ carts' = [carts EXCEPT
                   ![flight.cart].lastNotifiedAt = now,
                   ![flight.cart].recoveryStatus = NotifiedStatus(flight.status)]
    /\ flight' = NoFlight
    /\ ev' = Event("send", flight.svc, flight.cart, TRUE, flight.calls)
    /\ UNCHANGED <<now, created, scan, watch, env, suspended, delivered>>

Stats(e) ==
    /\ ~Running
    /\ Apply("stats", e, 0, Outcome(carts, created, getRecoveryStats(e, carts), {}))

(* createShopifyCart / updateShopifyCart up to the request: the lines the  *)
(* engine e computes for the items of cart c                               *)
MapItems(e, c) ==
    /\ ~Running
    /\ Exists(carts, c)
    /\ ev' = Event("mapItems", e, c,
                   mapMetastoreItemsToShopify(e.storeId, carts[c].items), {})
    /\ UNCHANGED <<carts, now, created, scan, watch, env, suspended, delivered, flight>>

(* the platform lists the lines of a cart it was sent as the line items of *)
(* an abandoned checkout: the variant and the quantity of each line        *)
RECURSIVE CheckoutLines(_)
CheckoutLines(lines) ==
    IF lines = <<>> THEN <<>>
    ELSE << [variant_id |-> Head(lines).merchandiseId,
             quantity |-> Head(lines).quantity] >> \o CheckoutLines(Tail(lines))

(* the items of cart c mapped to lines by engine e, and the checkout the   *)
(* platform lists for those lines mapped back by the same engine, as the   *)
(* import does                                                             *)
RoundTrip(e, c) ==
    /\ ~Running
    /\ Exists(carts, c)
    /\ ev' = Event("roundTrip", e, c,
                   mapShopifyItemsToMetastore(e.storeId,
                       CheckoutLines(mapMetastoreItemsToShopify(e.storeId,
                                                                carts[c].items))),
                   {})
    /\ UNCHANGED <<carts, now, created, scan, watch, env, suspended, delivered, flight>>

(* sendCartRecoveryMessage from the recovery URL to the request to         *)
(* WhatsApp: the discount sentence of the message the engine e writes for  *)
(* cart c                                                                  *)
MessageText(e, c) ==
    /\ ~Running
    /\ Exists(carts, c)
    /\ ev' = Event("message", e, c, DiscountLine(carts[c]), {})
    /\ UNCHANGED <<carts, now, created, scan, watch, env, suspended, delivered, flight>>

(* the `cartId` and `code` query parameters of GET /api/carts/recovery: a   *)
(* parameter that is missing reads null, and an empty one is falsy too     *)
NoParam == -1
ManualIds == CartIds \cup {NoParam}
Codes == {Null, "SAVE", "WRONG"}

(* a JSON response with a status, or the redirect to the recovery URL *)
Response(status, url) == [status |-> status, url |-> url]

(* GET /api/carts/recovery?cartId=c&code=code, as one handler *)
ManualRecovery(c, code) ==
    /\ ~Running
    /\ IF c = NoParam
       THEN /\ ev' = Event("manual", NoService, <<c, code>>, Response(400, NoUrl), {})
            /\ UNCHANGED <<carts, created>>
       ELSE IF ~Exists(carts, c)
       THEN /\ ev' = Event("manual", NoService, <<c, code>>, Response(404, NoUrl), {})
            /\ UNCHANGED <<carts, created>>
       ELSE IF Truthy(code) /\ Truthy(carts[c].discountCode) /\ code # carts[c].discountCode
       THEN /\ ev' = Event("manual", NoService, <<c, code>>, Response(400, NoUrl), {})
            /\ UNCHANGED <<carts, created>>
       ELSE IF ~InitializeOk(carts[c].storeId)
       THEN /\ ev' = Event("manual", ScanService(carts[c].storeId), <<c, code>>,
                           Response(500, NoUrl), {})
            /\ UNCHANGED <<carts, created>>
       ELSE LET e == ScanService(carts[c].storeId)
                recovered == processRecovery(carts, created, c, now)
            IN  \E o \in UrlOracle(e, recovered.carts, c) :
                  LET got == getCartRecoveryUrl(e, recovered.carts, recovered.created, c, o)
                  IN  /\ carts' = got.carts
                      /\ created' = got.created
                      /\ ev' = Event("manual", e, <<c, code>>,
                                     IF got.ret = NoUrl THEN Response(500, NoUrl)
                                     ELSE Response(307, got.ret),
                                     got.calls)
    /\ UNCHANGED <<now, scan, watch, env, suspended, delivered, flight>>

(* time passes between requests; a pass is short against the clock's hour *)
Tick ==
    /\ ~Running
    /\ \E d \in TickDeltas :
         /\ now + d <= MaxTime
         /\ now' = now + d
    /\ ev' = Event("tick", NoService, 0, TRUE, {})
    /\ UNCHANGED <<carts, created, scan, watch, env, suspended, delivered, flight>>

---------------------------------------------------------------------------

(* the recorded operations of a specification: the named operations, on    *)
(* engines whose store URL is set (TRUE) or is not (FALSE)                 *)
Watching(ops, urlSet) == ops \X urlSet

ScanOps ==
    { "cronStart", "cronImport", "detectQuery", "detectCart",
      "followUpQuery", "followUpCart", "expire", "postBatch", "respond",
      "respondError" }

(* The Cart tables a run starts from: one cart bought in the app, an hour  *)
(* before the clock starts, in a store the scan processes (s1) or in one   *)
(* it does not (s3).                                                       *)
AppCarts == { InitialCarts("s1"), InitialCarts("s3") }

(* a run's surroundings *)
Env(faults, checkouts, count) ==
    [faults |-> faults, checkouts |-> checkouts, count |-> count]

(* every store's platform can answer any of the lists *)
AnyCheckouts == [s \in StoreIds |-> CheckoutBatches]

InitEnv(w, tables, en) ==
    /\ carts \in tables
    /\ now = 1
    /\ created = 0
    /\ scan = IdleScan
    /\ watch = w
    /\ env = en
    /\ delivered = [c \in 1 .. MaxCarts |-> 0]
    /\ suspended = IdleScan
    /\ flight = NoFlight
    /\ ev = NoEvent

(* a run in which the record store answers every query *)
InitWith(w, tables) == InitEnv(w, tables, Env(FALSE, AnyCheckouts, FALSE))

Init == InitWith(Watching(ScanOps, BOOLEAN), AppCarts)

Next ==
    \/ CronStart
    \/ CronImport
    \/ DetectQuery
    \/ DetectCart
    \/ FollowUpQuery
    \/ FollowUpCart
    \/ Expire
    \/ Respond
    \/ \E s \in StoreIds : PostBatch(s)
    \/ \E s \in StoreIds : Initialize(s)
    \/ \E e \in CartServices, c \in CartIds : SyncCart(e, c)
    \/ \E e \in Services : ImportCarts(e)
    \/ \E e \in CartServices, c \in CartIds : RecoveryUrl(e, c)
    \/ \E e \in CartServices, c \in CartIds : SendMessage(e, c)
    \/ \E e \in CartServices, c \in CartIds : Recover(e, c)
    \/ \E e \in Services : Stats(e)
    \/ \E c \in ManualIds, code \in Codes : ManualRecovery(c, code)
    \/ Tick

(* the system, with the steps of the scan pass recorded *)
Spec == Init /\ [][Next]_vars

(* the same system, with the sends recorded *)
SpecSend ==
    /\ InitWith(Watching({"send", "detectCart", "followUpCart"}, BOOLEAN), AppCarts)
    /\ [][Next]_vars

(* the same system started with an empty Cart table as well, with the      *)
(* imports recorded                                                        *)
SpecImport ==
    /\ InitWith(Watching({"import"}, BOOLEAN), {<<>>, InitialCarts("s1")})
    /\ [][Next]_vars

EngineOps == {"sync", "import", "url", "send", "recover", "stats"}

(* the same system, with initialize and the operations of engines that     *)
(* are not initialized recorded                                            *)
SpecService ==
    /\ InitWith(Watching({"initialize"}, BOOLEAN) \cup Watching(EngineOps, {FALSE}),
                AppCarts)
    /\ [][Next]_vars

(* the system with a record store that can fail the queries of the pass,   *)
(* the responses recorded                                                  *)
SpecFaults ==
    /\ InitEnv(Watching({"respond", "respondError"}, BOOLEAN), AppCarts,
               Env(TRUE, AnyCheckouts, FALSE))
    /\ [][Next]_vars

(* the platform of store s1 always lists checkout 101, the others list     *)
(* nothing                                                                 *)
SameCheckouts == [s \in StoreIds |-> IF s = "s1" THEN {<<101>>} ELSE {<<>>}]

NextRepeat == Next \/ CronAgain

(* the system with remote checkout lists that never change and with the    *)
(* cron requested twice in a row, started with an empty Cart table as      *)
(* well, the sends of the passes recorded                                  *)
SpecRepeat ==
    /\ InitEnv(Watching({"detectCart", "followUpCart"}, BOOLEAN),
               {<<>>, InitialCarts("s1")}, Env(FALSE, SameCheckouts, FALSE))
    /\ [][NextRepeat]_vars

(* the system with a record store that can fail, the delivered messages    *)
(* counted                                                                 *)
SpecMessages ==
    /\ InitEnv({}, {InitialCarts("s1")}, Env(TRUE, AnyCheckouts, TRUE))
    /\ [][Next]_vars

(* the steps of the scheduled scan *)
ScanStep ==
    \/ CronStart
    \/ CronImport
    \/ DetectQuery
    \/ DetectCart
    \/ FollowUpQuery
    \/ FollowUpCart
    \/ Expire
    \/ Respond

NextScan ==
    \/ ScanStep
    \/ \E e \in CartServices, c \in CartIds : SyncCart(e, c)
    \/ \E e \in CartServices, c \in CartIds : Recover(e, c)
    \/ Tick

(* the scheduled scan, the app's cart sync, the customer's return and the  *)
(* clock, started with an empty Cart table as well, the sends of the       *)
(* passes recorded.                                                        *)
(* The scheduler requests the scan again and again and a pass never        *)
(* blocks, so a step of the scan that can be taken is taken (weak          *)
(* fairness); the clock advances between passes however many passes run    *)
(* (strong fairness: a running pass disables Tick).                        *)
SpecScan ==
    /\ InitWith(Watching({"detectCart", "followUpCart"}, BOOLEAN),
                {<<>>, InitialCarts("s1")})
    /\ [][NextScan]_vars
    /\ WF_vars(ScanStep)
    /\ SF_vars(Tick)

(* Two requests in flight.  A handler runs until one of its awaits; the    *)
(* server then resumes another request, or takes a new one.  The pass in   *)
(* `scan` is the one that runs, the pass in `suspended` waits: Switch      *)
(* hands control from one to the other.  A step of a pass (a query, a cart *)
(* of a loop) runs without a switch inside it.                             *)
Switch ==
    /\ Running \/ suspended.pc # "idle"
    /\ scan' = suspended
    /\ suspended' = scan
    /\ ev' = Event("switch", NoService, 0, TRUE, {})
    /\ UNCHANGED <<carts, now, created, watch, env, delivered, flight>>

NextOverlap ==
    \/ ScanStep
    \/ \E s \in StoreIds : PostBatch(s)
    \/ \E e \in CartServices, c \in CartIds : SyncCart(e, c)
    \/ Tick
    \/ Switch

(* scan requests that overlap: the scheduled scan, the store batch of      *)
(* POST /api/carts/recovery, the app's cart sync and the clock, started    *)
(* with one cart of store s1, the sends of the passes recorded and the     *)
(* delivered messages counted                                              *)
SpecOverlap ==
    /\ InitEnv(Watching({"detectCart", "followUpCart"}, BOOLEAN),
               {InitialCarts("s1")}, Env(FALSE, AnyCheckouts, TRUE))
    /\ [][NextOverlap]_vars

(* overlapping scan requests over a Cart table with a cart of store s1 and *)
(* a cart of store s2                                                      *)
SpecStores ==
    /\ InitEnv({}, {InitialCarts("s1") \o InitialCarts("s2")},
               Env(FALSE, AnyCheckouts, FALSE))
    /\ [][NextOverlap]_vars

NextEngine ==
    \/ \E s \in StoreIds : Initialize(s)
    \/ \E e \in CartServices, c \in CartIds : SyncCart(e, c)
    \/ \E e \in Services : ImportCarts(e)
    \/ \E e \in CartServices, c \in CartIds : RecoveryUrl(e, c)
    \/ \E e \in CartServices, c \in CartIds : SendMessage(e, c)
    \/ \E e \in CartServices, c \in CartIds : Recover(e, c)
    \/ \E e \in Services : Stats(e)

(* the public methods of the engine called one after the other, with a     *)
(* record store whose queries can throw, every call recorded               *)
SpecEngine ==
    /\ InitEnv(Watching(EngineOps \cup {"initialize"}, BOOLEAN),
               {InitialCarts("s1")}, Env(TRUE, SameCheckouts, FALSE))
    /\ [][NextEngine]_vars

(* every store's platform lists checkout 101 and then checkout 102 *)
TwoCheckouts == [s \in StoreIds |-> {<<101, 102>>}]

(* the engines with a record store that can throw and a platform that      *)
(* lists two checkouts, the imports recorded                               *)
SpecLateFailure ==
    /\ InitEnv(Watching({"import"}, BOOLEAN), {<<>>, InitialCarts("s1")},
               Env(TRUE, TwoCheckouts, FALSE))
    /\ [][NextEngine]_vars

(* requests for single carts that overlap: a send stands before its write  *)
(* while other requests run                                                *)
NextFlight ==
    \/ \E e \in CartServices, c \in CartIds : SyncCart(e, c)
    \/ \E e \in CartServices, c \in CartIds : SendMessage(e, c)
    \/ \E e \in CartServices, c \in CartIds : SendRead(e, c)
    \/ SendWrite
    \/ \E e \in CartServices, c \in CartIds : Recover(e, c)
    \/ Tick

(* the single-cart requests overlapping, no operation recorded *)
SpecFlight ==
    /\ InitWith({}, {InitialCarts("s1")})
    /\ [][NextFlight]_vars

(* sends and recoveries of single carts, and the statistics asked for in   *)
(* between                                                                  *)
NextRates ==
    \/ \E e \in CartServices, c \in CartIds : SyncCart(e, c)
    \/ \E e \in CartServices, c \in CartIds : SendMessage(e, c)
    \/ \E e \in CartServices, c \in CartIds : Recover(e, c)
    \/ \E e \in Services : Stats(e)
    \/ Tick

(* the same, started with one cart of store s1, the statistics recorded *)
SpecRates ==
    /\ InitWith(Watching({"stats"}, BOOLEAN), {InitialCarts("s1")})
    /\ [][NextRates]_vars

(* a cart of store s1 without a phone number *)
NoPhoneCart ==
    << NewCart("s1", Null, << [id |-> "P1", price |-> 10, quantity |-> 2] >>, 20,
               "SAVE", 3, 0) >>

NextSend ==
    \/ \E e \in CartServices, c \in CartIds : SyncCart(e, c)
    \/ \E e \in CartServices, c \in CartIds : SendMessage(e, c)
    \/ Tick

(* syncCartToShopify and sendCartRecoveryMessage called for a cart with or *)
(* without a phone number, of a store with or without each of the          *)
(* messaging credentials, the sends recorded                               *)
SpecGuard ==
    /\ InitWith(Watching({"send"}, BOOLEAN),
                { NoPhoneCart, InitialCarts("s1"), InitialCarts("s2"),
                  InitialCarts("s3"), NoPhoneCart \o InitialCarts("s1") })
    /\ [][NextSend]_vars

(* the items a cart can hold: up to MaxItems items, of products P1 and P2  *)
(* and of P3, which is mapped and no longer a product, in quantity 1 or 2  *)
CartItems ==
    { [id |-> p, price |-> IF p = "P2" THEN 20 ELSE 10, quantity |-> q] :
        p \in {"P1", "P2", "P3"}, q \in {1, 2} }

ItemLists == UNION { [1 .. n -> CartItems] : n \in 0 .. MaxItems }

ItemCarts ==
    { << NewCart("s1", "+1", items, ItemsTotal(items), Null, 0, 0) >> :
        items \in ItemLists }

NextMap ==
    \/ \E e \in Services, c \in CartIds : MapItems(e, c)
    \/ \E e \in Services, c \in CartIds : RoundTrip(e, c)

(* the two item mappings applied to every list of items *)
SpecMap ==
    /\ InitWith(Watching({"mapItems", "roundTrip"}, BOOLEAN), ItemCarts)
    /\ [][NextMap]_vars

(* the totals and the discount amounts of the carts a message is written  *)
(* for; a cart without items, or with free items, has total 0               *)
MessageTotals == {0, 7, 10, 20, 40}
MessageAmounts == {0, 3, 5, 10}

MessageCarts ==
    { << NewCart("s1", "+1", << [id |-> "P1", price |-> 10, quantity |-> 2] >>,
                 total, code, amount, 0) >> :
        total \in MessageTotals, code \in {Null, "SAVE"}, amount \in MessageAmounts }

NextMessage == \E e \in CartServices, c \in CartIds : MessageText(e, c)

(* the message template applied to carts of every total, code and amount *)
SpecTemplate ==
    /\ InitWith(Watching({"message"}, BOOLEAN), MessageCarts)
    /\ [][NextMessage]_vars

(* k carts of store s1 with status st *)
CartsWithStatus(st, k) ==
    [ i \in 1 .. k |->
        [ NewCart("s1", "+1", << [id |-> "P1", price |-> 10, quantity |-> 2] >>,
                  20, "SAVE", 3, 0) EXCEPT !.recoveryStatus = st ] ]

(* the Cart tables of up to MaxStatCarts carts of store s1, by the number  *)
(* of carts in each of four statuses                                       *)
StatTables ==
    { CartsWithStatus("NOTIFIED_FIRST", a) \o CartsWithStatus("NOTIFIED_FINAL", b)
        \o CartsWithStatus("RECOVERED", r) \o CartsWithStatus("LOST", l) :
        a \in 0 .. MaxStatCarts, b \in 0 .. MaxStatCarts,
        r \in 0 .. MaxStatCarts, l \in 0 .. 1 }

NextStats == \E e \in Services : Stats(e)

(* getRecoveryStats applied to tables of every composition *)
SpecStats ==
    /\ InitWith(Watching({"stats"}, BOOLEAN),
                {t \in StatTables : Len(t) <= MaxStatCarts})
    /\ [][NextStats]_vars

(* a cart of store s with a status, a total and a discount amount; the     *)
(* amount of a cart without a discount is null, which the code reads as    *)
(* falsy, like 0                                                           *)
PricedCarts ==
    { [ NewCart(s, "+1", << [id |-> "P1", price |-> 10, quantity |-> 2] >>,
                p[1], Null, p[2], 0) EXCEPT !.recoveryStatus = st ] :
        s \in {"s1", "s2"}, st \in {"RECOVERED", "LOST", "NOTIFIED_FINAL"},
        p \in {<<100, 15>>, <<100, 0>>, <<20, 3>>} }

RevenueTables == UNION { [1 .. n -> PricedCarts] : n \in 0 .. MaxRevenueCarts }

(* getRecoveryStats applied to tables of carts of every status, total and  *)
(* discount                                                                *)
SpecRevenue ==
    /\ InitWith(Watching({"stats"}, BOOLEAN), RevenueTables)
    /\ [][NextStats]_vars

(* the same system, with syncCartToShopify recorded *)
SpecSync ==
    /\ InitWith(Watching({"sync"}, BOOLEAN), {InitialCarts("s1")})
    /\ [][Next]_vars

(* the same system started with one cart of store s1, with                 *)
(* getCartRecoveryUrl recorded                                             *)
SpecUrl ==
    /\ InitWith(Watching({"url"}, BOOLEAN), {InitialCarts("s1")})
    /\ [][Next]_vars

(* the same, with processRecovery recorded *)
SpecRecover ==
    /\ InitWith(Watching({"recover"}, BOOLEAN), {InitialCarts("s1")})
    /\ [][Next]_vars

(* the same, with the recovery endpoint recorded *)
SpecManual ==
    /\ InitWith(Watching({"manual"}, BOOLEAN), {InitialCarts("s1")})
    /\ [][Next]_vars

---------------------------------------------------------------------------
(* Properties *)

ShopifyCredentials(s) ==
    Truthy(Store(s).shopifyAccessToken) /\ Truthy(Store(s).shopifyStoreUrl)

WhatsAppCredentials(s) ==
    Truthy(Store(s).whatsappAccessToken) /\ Truthy(Store(s).whatsappPhoneNumberId)

(* the engine as the constructor leaves it *)
Uninitialized(e) == ~e.shopifyAccessToken /\ ~e.shopifyStoreUrl

Notified == {"NOTIFIED_FIRST", "NOTIFIED_FINAL"}

SendOps == {"send", "detectCart", "followUpCart"}

(* the status a send reads: the detect loop marks the cart first *)
StatusRead(op, st) == IF op = "detectCart" THEN "ABANDONED" ELSE st

(* C1: a successful send on an ABANDONED cart leaves it NOTIFIED_FIRST, a   *)
(* successful send on a NOTIFIED_FIRST or NOTIFIED_FINAL cart leaves it     *)
(* NOTIFIED_FINAL, and no send, successful or not, takes a NOTIFIED_FINAL  *)
(* cart to NOTIFIED_FIRST.                                                 *)
C1_SendTransitions ==
    [][ ev'.op \in SendOps =>
          /\ \A c \in DOMAIN carts :
                carts[c].recoveryStatus = "NOTIFIED_FINAL"
                    => carts'[c].recoveryStatus # "NOTIFIED_FIRST"
          /\ ev'.ret.ok =>
                LET c == ev'.cart
                    read == StatusRead(ev'.op, carts[c].recoveryStatus)
                IN  /\ read = "ABANDONED"
                          => carts'[c].recoveryStatus = "NOTIFIED_FIRST"
                    /\ read \in Notified
                          => carts'[c].recoveryStatus = "NOTIFIED_FINAL"
      ]_vars

(* C1 witness: the follow-up loop has sent the second message to a cart    *)
(* that the first message had left NOTIFIED_FIRST.                          *)
C1_Witness ==
    /\ ev.op = "followUpCart"
    /\ ev.ret.ok
    /\ carts[ev.cart].recoveryStatus = "NOTIFIED_FINAL"

Rank(st) ==
    CASE st = "NONE" -> 0
      [] st = "ABANDONED" -> 1
      [] st = "NOTIFIED_FIRST" -> 2
      [] st = "NOTIFIED_FINAL" -> 3
      [] OTHER -> 4

Terminal == {"RECOVERED", "LOST"}

(* C2: RECOVERED and LOST are terminal, and no step takes a cart's status   *)
(* backwards in the order NONE, ABANDONED, NOTIFIED_FIRST, NOTIFIED_FINAL,  *)
(* RECOVERED/LOST.                                                         *)
C2_TerminalAndForward ==
    [][ \A c \in DOMAIN carts :
          /\ carts[c].recoveryStatus \in Terminal
                => carts'[c].recoveryStatus = carts[c].recoveryStatus
          /\ Rank(carts'[c].recoveryStatus) >= Rank(carts[c].recoveryStatus)
      ]_vars

(* C3: a cart becomes LOST only in the expire step of a pass, for the pass's *)
(* store, from NOTIFIED_FINAL and with a last-notified time more than 48   *)
(* hours before the step.                                                  *)
C3_LostOnlyByExpire ==
    [][ \A c \in DOMAIN carts' :
          (carts'[c].recoveryStatus = "LOST"
              /\ (c \in DOMAIN carts => carts[c].recoveryStatus # "LOST"))
          => /\ c \in DOMAIN carts
             /\ ev'.op = "expire"
             /\ scan.pc = "expire"
             /\ carts[c].storeId = ev'.svc.storeId
             /\ carts[c].recoveryStatus = "NOTIFIED_FINAL"
             /\ carts[c].lastNotifiedAt # NoTime
             /\ now - carts[c].lastNotifiedAt > LostAfter
      ]_vars

(* C3 witness: an expire step has just marked a cart lost. *)
C3_Witness ==
    /\ ev.op = "expire"
    /\ ev.ret.count > 0
    /\ \E c \in DOMAIN carts : /\ carts[c].recoveryStatus = "LOST"
                                /\ carts[c].storeId = ev.svc.storeId

InQueue(sc, c) == \E i \in DOMAIN sc.queue : sc.queue[i] = c

CronResponse == scan.kind = "cron" /\ scan.pc = "respond"

(* the age of timestamp ts at time t *)
Age(ts, t) == t - ts

FreshFirst(cart, t) ==
    /\ cart.recoveryStatus = "NOTIFIED_FIRST"
    /\ cart.lastNotifiedAt # NoTime
    /\ Age(cart.lastNotifiedAt, t) < FollowUpAfter

(* C5: the follow-up phase of a pass (its query and the sends of its loop)  *)
(* never selects, never sends to and never changes a NOTIFIED_FIRST cart    *)
(* whose last-notified time is less than 24 hours old.                     *)
C5_FollowUpSkipsFresh ==
    [][ ev'.op \in {"followUpQuery", "followUpCart"} =>
          \A c \in DOMAIN carts :
              FreshFirst(carts[c], now) =>
                  /\ carts'[c] = carts[c]
                  /\ ~InQueue(scan', c)
                  /\ ~InQueue(scan, c)
                  /\ ev'.op = "followUpCart" => ev'.cart # c
      ]_vars

(* C5 witness: the follow-up loop has sent to one cart of a store while     *)
(* another cart of the store is NOTIFIED_FIRST for less than 24 hours.     *)
C5_Witness ==
    /\ ev.op = "followUpCart"
    /\ ev.ret.ok
    /\ \E c \in DOMAIN carts : /\ c # ev.cart
                                /\ carts[c].storeId = ev.svc.storeId
                                /\ FreshFirst(carts[c], now)

NotificationOps == {"detectQuery", "detectCart", "followUpQuery", "followUpCart"}

NewlyLost(cs, cs2) ==
    {c \in DOMAIN cs : cs[c].recoveryStatus # "LOST" /\ cs2[c].recoveryStatus = "LOST"}

(* what C6 says of the steps of a pass, for carts that qualify by Due(cart, t) *)
LostOnce(Due(_, _)) ==
    /\ ev'.op = "expire" =>
          /\ \A c \in DOMAIN carts :
                (carts[c].storeId = ev'.svc.storeId /\ Due(carts[c], now))
                    => c \in NewlyLost(carts, carts')
          /\ ev'.ret.count = Cardinality(NewlyLost(carts, carts'))
          /\ scan'.results.lost = scan.results.lost + ev'.ret.count
    /\ ev'.op \in NotificationOps =>
          \A c \in DOMAIN carts :
              carts[c].recoveryStatus = "LOST" =>
                  /\ carts'[c] = carts[c]
                  /\ ~InQueue(scan', c)
                  /\ ev'.op \in {"detectCart", "followUpCart"} => ev'.cart # c

DueAt48(cart, t) ==
    /\ cart.recoveryStatus = "NOTIFIED_FINAL"
    /\ cart.lastNotifiedAt # NoTime
    /\ Age(cart.lastNotifiedAt, t) >= LostAfter

DueAfter48(cart, t) ==
    /\ cart.recoveryStatus = "NOTIFIED_FINAL"
    /\ cart.lastNotifiedAt # NoTime
    /\ Age(cart.lastNotifiedAt, t) > LostAfter

(* C6, as stated: the expire step of a pass takes every NOTIFIED_FINAL cart *)
(* of its store whose last-notified time is at least 48 hours old to LOST, *)
(* counts each cart it takes to LOST once, and no notification step        *)
(* selects, sends to or changes a LOST cart.                               *)
C6_AtLeast48Hours == [][LostOnce(DueAt48)]_vars

(* C6, amended: the same with a last-notified time more than 48 hours old.  *)
C6_MoreThan48Hours == [][LostOnce(DueAfter48)]_vars

(* C6 witness: the follow-up query of a pass has run for a store that has   *)
(* a cart an earlier expire step marked LOST.                               *)
C6_Witness ==
    /\ ev.op = "followUpQuery"
    /\ \E c \in DOMAIN carts : /\ carts[c].recoveryStatus = "LOST"
                                /\ carts[c].storeId = ev.svc.storeId

(* the carts of store s that carry remote id k *)
CartsOfCheckout(s, cs, k) ==
    {c \in DOMAIN cs : cs[c].storeId = s /\ cs[c].shopifyCartId = k}

(* a checkout of which at least one line item resolves to a product of s *)
Importable(s, k) == mapShopifyItemsToMetastore(s, Checkout(k).line_items) # <<>>

(* C7: when two consecutive importAbandonedCarts calls of engines of one    *)
(* store both fetch a checkout of which a line item resolves, the store    *)
(* has exactly one cart with that remote id after the second call, every   *)
(* cart the second call created is for another checkout, and the second    *)
(* call returns the number of carts it created.                            *)
C7_ImportIdempotent ==
    [][ ( /\ ev.op = "import" /\ ev'.op = "import"
          /\ ev'.svc = ev.svc
          /\ <<"checkouts", TRUE>> \in ev.calls
          /\ <<"checkouts", TRUE>> \in ev'.calls )
        => \A i \in DOMAIN ev.batch : \A j \in DOMAIN ev'.batch :
             (ev.batch[i] = ev'.batch[j] /\ Importable(ev.svc.storeId, ev.batch[i])) =>
                 LET s == ev.svc.storeId
                     k == ev.batch[i]
                 IN  /\ Cardinality(CartsOfCheckout(s, carts', k)) = 1
                     /\ CartsOfCheckout(s, carts', k) \subseteq DOMAIN carts
                     /\ carts = SubSeq(carts', 1, Len(carts))
                     /\ ev'.ret.count = Len(carts') - Len(carts)
      ]_vars

(* C7 witness: an import that fetched checkout 101 again, for a store that *)
(* already has its cart, has created nothing.                              *)
C7_Witness ==
    /\ ev.op = "import"
    /\ <<"checkouts", TRUE>> \in ev.calls
    /\ \E i \in DOMAIN ev.batch : ev.batch[i] = 101
    /\ Cardinality(CartsOfCheckout(ev.svc.storeId, carts, 101)) = 1
    /\ ev.ret.count = 0

(* C8, as stated: initialize returns true exactly when the store has both   *)
(* its Shopify credentials and its WhatsApp credentials, and leaves the    *)
(* engine uninitialized when it returns false.                             *)
C8_BothCredentialSets ==
    ev.op = "initialize" =>
        /\ ev.ret.ok <=> (ShopifyCredentials(ev.svc.storeId)
                          /\ WhatsAppCredentials(ev.svc.storeId))
        /\ ~ev.ret.ok => Uninitialized(ev.svc)

(* C8, amended: initialize returns true exactly when the store has both its *)
(* Shopify access token and its store URL, whatever its WhatsApp           *)
(* credentials; it then holds both, and holds neither when it returns      *)
(* false.                                                                  *)
C8_ShopifyCredentialsOnly ==
    ev.op = "initialize" =>
        /\ ev.ret.ok <=> ShopifyCredentials(ev.svc.storeId)
        /\ ev.ret.ok => ev.svc.shopifyAccessToken /\ ev.svc.shopifyStoreUrl
        /\ ~ev.ret.ok => Uninitialized(ev.svc)

(* C8 witness: initialize has failed for a store that has its access token *)
(* and its WhatsApp identifiers but no store URL.                          *)
C8_Witness ==
    /\ ev.op = "initialize"
    /\ ~ev.ret.ok
    /\ Truthy(Store(ev.svc.storeId).shopifyAccessToken)
    /\ ~Truthy(Store(ev.svc.storeId).shopifyStoreUrl)
    /\ Truthy(Store(ev.svc.storeId).whatsappPhoneNumberId)

(* the negative or empty result of an operation *)
NegativeResult(e) ==
    CASE e.op = "sync" -> e.ret.id = NoId
      [] e.op = "import" -> e.ret.count = 0
      [] e.op = "url" -> e.ret.url = NoUrl
      [] e.op = "send" -> ~e.ret.ok
      [] e.op = "recover" -> ~e.ret.ok
      [] e.op = "stats" -> e.ret.stats = getRecoveryStats(e.svc, <<>>)
      [] OTHER -> TRUE

(* C9, as stated: every operation of an engine that is not initialized      *)
(* returns its negative or empty result, makes no remote call and changes  *)
(* no cart.                                                                *)
C9_EveryOperationFails ==
    [][ (ev'.op \in EngineOps /\ Uninitialized(ev'.svc)) =>
          /\ NegativeResult(ev')
          /\ ev'.calls = {}
          /\ carts' = carts
          /\ created' = created
      ]_vars

(* C9, amended: on an engine that is not initialized, sync, import, the    *)
(* recovery URL and send return their negative result, make no remote call *)
(* and change no cart; processRecovery still marks an existing cart        *)
(* RECOVERED and returns true, and getRecoveryStats still returns the      *)
(* counts of the engine's store; neither makes a remote call.              *)
C9_RemoteOperationsFail ==
    [][ (ev'.op \in EngineOps /\ Uninitialized(ev'.svc)) =>
          /\ ev'.calls = {}
          /\ created' = created
          /\ ev'.op \in {"sync", "import", "url", "send"} =>
                NegativeResult(ev') /\ carts' = carts
          /\ ev'.op = "recover" =>
                /\ ev'.ret.ok = Exists(carts, ev'.cart)
                /\ Exists(carts, ev'.cart) =>
                      carts' = [carts EXCEPT ![ev'.cart].recoveryStatus = "RECOVERED",
                                             ![ev'.cart].recoveredAt = now]
                /\ ~Exists(carts, ev'.cart) => carts' = carts
          /\ ev'.op = "stats" =>
                /\ carts' = carts
                /\ ev'.ret.stats.abandoned = CountStatus(ev'.svc.storeId, carts, "ABANDONED")
                /\ ev'.ret.stats.recovered = CountStatus(ev'.svc.storeId, carts, "RECOVERED")
                /\ ev'.ret.stats.lost = CountStatus(ev'.svc.storeId, carts, "LOST")
                /\ ev'.ret.stats.notified =
                      CountStatus(ev'.svc.storeId, carts, "NOTIFIED_FIRST")
                      + CountStatus(ev'.svc.storeId, carts, "NOTIFIED_FINAL")
      ]_vars

(* C9 witness: an engine that is not initialized has refused to send to a  *)
(* cart that has a phone number and a remote id, in a store that has its   *)
(* WhatsApp credentials.                                                   *)
C9_Witness ==
    /\ ev.op = "send"
    /\ Uninitialized(ev.svc)
    /\ ~ev.ret.ok
    /\ Exists(carts, ev.cart)
    /\ carts[ev.cart].customerPhone # Null
    /\ carts[ev.cart].shopifyCartId # NoId
    /\ WhatsAppCredentials(carts[ev.cart].storeId)

Called(e, call) == <<call, TRUE>> \in e.calls \/ <<call, FALSE>> \in e.calls

C11_UrlOfSyncedCart ==
    [][ ev'.op = "url" /\ ev'.ret.url # NoUrl
          => ev'.ret.url.checkout = carts'[ev'.cart].shopifyCartId ]_vars

(* C12: processRecovery on a cart that exists sets its status to RECOVERED  *)
(* and its recovery time to the current time, whatever the status was,     *)
(* changes no other field and no other cart, makes no remote call and      *)
(* returns true; on a cart that does not exist it returns false and        *)
(* changes nothing.                                                        *)
C12_RecoveryFrame ==
    [][ ev'.op = "recover" =>
          /\ created' = created
          /\ ev'.calls = {}
          /\ IF Exists(carts, ev'.cart)
             THEN /\ ev'.ret.ok
                  /\ carts' = [carts EXCEPT ![ev'.cart].recoveryStatus = "RECOVERED",
                                            ![ev'.cart].recoveredAt = now]
             ELSE /\ ~ev'.ret.ok
                  /\ carts' = carts ]_vars

(* a cart that was LOST has been recovered, next to another cart *)
C12_Witness ==
    /\ ev.op = "recover"
    /\ ev.ret.ok
    /\ Len(carts) = MaxCarts
    /\ carts[ev.cart].recoveryStatus = "RECOVERED"
    /\ carts[ev.cart].recoveredAt = now
    /\ carts[ev.cart].lastNotifiedAt # NoTime
    /\ now - carts[ev.cart].lastNotifiedAt > LostAfter

(* C13: when the cart carries a discount code, the recovery endpoint        *)
(* rejects every request whose code is not the cart's code, a request      *)
(* without a code included, and leaves the cart as it was.                 *)
C13_CodeRequired ==
    [][ /\ ev'.op = "manual"
        /\ Exists(carts, ev'.cart)
        /\ Truthy(carts[ev'.cart].discountCode)
        /\ ev'.code # carts[ev'.cart].discountCode
        => /\ ev'.ret.status \notin {0, 307}
           /\ carts' = carts ]_vars

EligibleStores == {s \in StoreIds : EligibleStore(s)}

(* C14: in a cron pass, a store that fails (its engine does not initialize, *)
(* or a query of one of its phases throws) adds one to the error count and *)
(* the pass goes on with the next store; the pass is never ended by a      *)
(* store's failure, and its summary is returned with every listed store    *)
(* either failed or processed through its last phase.                      *)
C14_StoreFailureIsolated ==
    /\ [][ scan'.kind = "cron" /\ scan'.failed # scan.failed =>
              /\ scan'.results.errors = scan.results.errors + 1
              /\ scan'.stores = Tail(scan.stores)
              /\ scan'.pc = IF Tail(scan.stores) = <<>> THEN "respond" ELSE "import"
              /\ scan'.done = scan.done ]_vars
    /\ [](scan.kind = "cron" /\ scan.pc = "failed" =>
                scan.failed = {} /\ scan.done = {})
    /\ [](CronResponse =>
             /\ scan.done \cup scan.failed = EligibleStores
             /\ scan.done \cap scan.failed = {}
             /\ scan.results.errors >= Cardinality(scan.failed))

(* a pass about to return its summary: the first store failed in a phase,  *)
(* the second did not initialize, the third was processed to the end       *)
C14_Witness ==
    /\ CronResponse
    /\ scan.failed = {"s1", "s3"}
    /\ scan.done = {"s2"}
    /\ scan.results.errors = 2

(* C15: in the detect and follow-up loops of a cron pass, a cart whose      *)
(* processing fails, a cart whose message could not be sent included, adds *)
(* one to the error count, and the loop goes on with the next cart.        *)
C15_CartFailureCounted ==
    [][ /\ scan.kind = "cron"
        /\ ev'.op \in {"detectCart", "followUpCart"}
        /\ ~ev'.ret.ok
        => /\ scan'.results.errors = scan.results.errors + 1
           /\ scan'.queue = Tail(scan.queue) ]_vars

(* C16: a cron pass requested as the pass before it returned, with no time  *)
(* elapsed and the remote checkout lists unchanged, delivers no message,   *)
(* creates no cart and changes no cart.                                    *)
C16_SecondPassIdle ==
    [][ scan.repeat =>
          /\ carts' = carts
          /\ <<"whatsapp", TRUE>> \notin ev'.calls ]_vars

(* C17: over any sequence of scan passes, the passes have at most two       *)
(* messages delivered for a cart.                                          *)
C17_AtMostTwoMessages ==
    \A c \in DOMAIN delivered : delivered[c] <= 2

(* the items of a list that have a product mapping in store s, in order *)
MappedItems(s, items) ==
    SelectSeq(items, LAMBDA it : MappingsOfProduct(s, it.id) # {})

(* C18: mapMetastoreItemsToShopify yields one line per item that has a      *)
(* product mapping in the engine's store, in the order of the items, with  *)
(* the item's quantity and the mapped variant id; items without a mapping  *)
(* are left out and the others are still returned.                         *)
C18_OneLinePerMappedItem ==
    ev.op = "mapItems" =>
        LET s == ev.svc.storeId
            mapped == MappedItems(s, carts[ev.cart].items)
            lines == ev.ret.lines
        IN  /\ Len(lines) = Len(mapped)
            /\ \A i \in 1 .. Len(mapped) :
                  /\ lines[i].quantity = mapped[i].quantity
                  /\ [ storeId |-> s, metastoreProductId |-> mapped[i].id,
                       shopifyVariantId |-> lines[i].merchandiseId ] \in ProductMappings

(* three items, the second without a mapping in the store: two lines *)
C18_Witness ==
    /\ ev.op = "mapItems"
    /\ ev.svc.storeId = "s1"
    /\ Len(carts[ev.cart].items) = 3
    /\ carts[ev.cart].items[1].id = "P1"
    /\ carts[ev.cart].items[2].id = "P2"
    /\ carts[ev.cart].items[3].id = "P1"
    /\ carts[ev.cart].items[3].quantity # carts[ev.cart].items[1].quantity
    /\ Len(ev.ret.lines) = 2

Pairs(items) == { <<items[i].id, items[i].quantity>> : i \in DOMAIN items }

(* product mappings are unique per (store, local product) and per (store,  *)
(* remote variant)                                                         *)
UniqueMappings ==
    \A m1, m2 \in ProductMappings :
        m1.storeId = m2.storeId =>
            (m1.metastoreProductId = m2.metastoreProductId
                <=> m1.shopifyVariantId = m2.shopifyVariantId)

(* the items of a list that are mapped to a variant in store s, the        *)
(* variant being mapped back to a product in store s                       *)
MappedBothWays(s, items) ==
    SelectSeq(items, LAMBDA it :
        \E m \in MappingsOfProduct(s, it.id) :
            MappingsOfVariant(s, m.shopifyVariantId) # {})

(* C19 as stated: with unique mappings, the round trip returns the         *)
(* (product id, quantity) pairs of the items mapped in both directions.    *)
C19_RoundTripAllMapped ==
    UniqueMappings /\ ev.op = "roundTrip" =>
        Pairs(ev.ret.items) = Pairs(MappedBothWays(ev.svc.storeId, carts[ev.cart].items))

(* C19: with unique mappings, the round trip returns the (product id,       *)
(* quantity) pairs of the items that are mapped in both directions and     *)
(* whose product still exists; an item of a product that is mapped and no  *)
(* longer exists is not returned.                                          *)
C19_RoundTripExistingProducts ==
    UniqueMappings /\ ev.op = "roundTrip" =>
        Pairs(ev.ret.items) =
            Pairs(SelectSeq(MappedBothWays(ev.svc.storeId, carts[ev.cart].items),
                            LAMBDA it : it.id \in ProductIds))

(* a cart with an item of an existing mapped product and an item of a      *)
(* mapped product that no longer exists, mapped there and back             *)
C19_Witness ==
    /\ UniqueMappings
    /\ ev.op = "roundTrip"
    /\ ev.svc.storeId = "s1"
    /\ Pairs(carts[ev.cart].items) = {<<"P1", 2>>, <<"P3", 1>>, <<"P2", 1>>}
    /\ Pairs(ev.ret.items) = {<<"P1", 2>>}

(* the carts of store s of table cs whose status is in the set sts *)
InStatus(s, cs, sts) ==
    {c \in DOMAIN cs : cs[c].storeId = s /\ cs[c].recoveryStatus \in sts}

(* C20: the notified count of getRecoveryStats is the number of the store's *)
(* carts in NOTIFIED_FIRST or NOTIFIED_FINAL; the recovery rate is the     *)
(* recovered count divided by the notified count, times 100, and 0 when    *)
(* the notified count is 0; 5 notified and 2 recovered carts give 40.      *)
C20_RecoveryRate ==
    ev.op = "stats" =>
        LET s == ev.svc.storeId
            notified == Cardinality(InStatus(s, carts, Notified))
            recovered == Cardinality(InStatus(s, carts, {"RECOVERED"}))
            rate == ev.ret.stats.recoveryRate
        IN  /\ ev.ret.stats.notified = notified
            /\ ev.ret.stats.recovered = recovered
            /\ rate[2] > 0
            /\ notified = 0 => rate[1] = 0
            /\ notified > 0 => rate[1] * notified = recovered * 100 * rate[2]
            /\ notified = 5 /\ recovered = 2 => rate[1] = 40 * rate[2]

(* the statistics of a store with 5 notified carts, in both notified       *)
(* statuses, and 2 recovered carts                                         *)
C20_Witness ==
    /\ ev.op = "stats"
    /\ ev.svc.storeId = "s1"
    /\ Cardinality(InStatus("s1", carts, {"NOTIFIED_FIRST"})) = 3
    /\ Cardinality(InStatus("s1", carts, {"NOTIFIED_FINAL"})) = 2
    /\ Cardinality(InStatus("s1", carts, {"RECOVERED"})) = 2
    /\ ev.ret.stats.notified = 5
    /\ ev.ret.stats.recoveryRate[1] = 40 * ev.ret.stats.recoveryRate[2]

RECURSIVE NetTotal(_, _)
NetTotal(cs, set) ==
    IF set = {} THEN 0
    ELSE LET c == CHOOSE x \in set : TRUE
         IN  cs[c].total - cs[c].discountAmount + NetTotal(cs, set \ {c})

(* C21: the revenue of getRecoveryStats is the sum, over the store's carts  *)
(* in status RECOVERED, of total minus discount amount, a cart without a   *)
(* discount counting its full total; carts in other statuses and carts of  *)
(* other stores add nothing.                                               *)
C21_RevenueOfRecovered ==
    ev.op = "stats" =>
        ev.ret.stats.revenue =
            NetTotal(carts, InStatus(ev.svc.storeId, carts, {"RECOVERED"}))

(* a store with a recovered cart of total 100 and discount 15, a recovered *)
(* cart of total 100 without a discount and a cart that is not recovered   *)
C21_Witness ==
    /\ ev.op = "stats"
    /\ ev.svc.storeId = "s1"
    /\ Len(carts) = 3
    /\ \A c \in DOMAIN carts : carts[c].storeId = "s1" /\ carts[c].total = 100
    /\ carts[1].recoveryStatus = "RECOVERED" /\ carts[1].discountAmount = 15
    /\ carts[2].recoveryStatus = "RECOVERED" /\ carts[2].discountAmount = 0
    /\ carts[3].recoveryStatus = "LOST" /\ carts[3].discountAmount = 15
    /\ ev.ret.stats.revenue = 185

(* a line item whose variant is mapped, in store s, to a product that exists *)
Resolves(s, line) ==
    \E m \in ProductMappings :
        /\ m.storeId = s
        /\ m.shopifyVariantId = line.variant_id
        /\ m.metastoreProductId \in ProductIds

(* the carts an operation appended to the table *)
NewCarts == (DOMAIN carts') \ (DOMAIN carts)

(* C22: importAbandonedCarts creates no cart for a checkout none of whose   *)
(* line items resolves to a product of the store, and every cart it        *)
(* creates has at least one item.                                          *)
C22_NoEmptyImport ==
    [][ ev'.op = "import" =>
          \A c \in NewCarts :
             /\ carts'[c].items # <<>>
             /\ \E i \in DOMAIN ev'.batch :
                  LET checkout == Checkout(ev'.batch[i])
                  IN  /\ carts'[c].shopifyCartId = checkout.id
                      /\ \E j \in DOMAIN checkout.line_items :
                            Resolves(ev'.svc.storeId, checkout.line_items[j]) ]_vars

(* an import that fetched checkout 102, none of whose lines resolves, and  *)
(* checkout 101 after it, and created the cart of 101 only                 *)
C22_Witness ==
    /\ ev.op = "import"
    /\ ev.batch = <<102, 101>>
    /\ ev.ret.count = 1
    /\ CartsOfCheckout(ev.svc.storeId, carts, 102) = {}
    /\ CartsOfCheckout(ev.svc.storeId, carts, 101) # {}

RECURSIVE PriceTimesQuantity(_, _)
PriceTimesQuantity(items, n) ==
    IF n = 0 THEN 0
    ELSE items[n].price * items[n].quantity + PriceTimesQuantity(items, n - 1)

(* C23: every cart importAbandonedCarts creates belongs to the engine's     *)
(* store, has status ABANDONED, is created for a fetched checkout whose id *)
(* it carries as remote cart id and whose creation time is its abandonment *)
(* time, and has as total the sum of price times quantity over its items.  *)
C23_ImportedCartFields ==
    [][ ev'.op = "import" =>
          \A c \in NewCarts :
             /\ carts'[c].storeId = ev'.svc.storeId
             /\ carts'[c].recoveryStatus = "ABANDONED"
             /\ carts'[c].total = PriceTimesQuantity(carts'[c].items, Len(carts'[c].items))
             /\ \E i \in DOMAIN ev'.batch :
                  /\ carts'[c].shopifyCartId = Checkout(ev'.batch[i]).id
                  /\ carts'[c].abandonedAt = Checkout(ev'.batch[i]).created_at ]_vars

(* the cart the engine of store s2 created for checkout 101: two units of  *)
(* the product at 20                                                       *)
C23_Witness ==
    /\ ev.op = "import"
    /\ ev.svc.storeId = "s2"
    /\ ev.ret.count = 1
    /\ carts[Len(carts)].storeId = "s2"
    /\ carts[Len(carts)].shopifyCartId = 101
    /\ carts[Len(carts)].recoveryStatus = "ABANDONED"
    /\ carts[Len(carts)].abandonedAt = Checkout(101).created_at
    /\ carts[Len(carts)].total = 40

(* a cart the detect loop marked abandoned and whose first message was not *)
(* delivered: marked after its last update, never notified                 *)
FailedFirst(cart) ==
    /\ cart.recoveryStatus = "ABANDONED"
    /\ cart.abandonedAt # NoTime
    /\ cart.abandonedAt > cart.updatedAt
    /\ cart.lastNotifiedAt = NoTime
    /\ cart.customerPhone # Null

(* a cart whose first message was delivered more than 24 hours ago and     *)
(* whose final message was not                                             *)
DueFinal(cart, t) ==
    /\ cart.recoveryStatus = "NOTIFIED_FIRST"
    /\ cart.lastNotifiedAt # NoTime
    /\ Age(cart.lastNotifiedAt, t) > FollowUpAfter
    /\ cart.customerPhone # Null

(* C24: a pass over a store selects for sending, in its detect phase, every *)
(* cart of the store left ABANDONED by a failed first message and, in its  *)
(* follow-up phase, every cart left NOTIFIED_FIRST whose final message is  *)
(* due.                                                                    *)
C24_FailedSendsSelectedAgain ==
    [][ /\ (ev'.op = "detectQuery" =>
              \A c \in DOMAIN carts :
                 (carts[c].storeId = Head(scan.stores) /\ FailedFirst(carts[c]))
                     => InQueue(scan', c))
        /\ (ev'.op = "followUpQuery" =>
              \A c \in DOMAIN carts :
                 (carts[c].storeId = Head(scan.stores) /\ DueFinal(carts[c], now))
                     => InQueue(scan', c)) ]_vars

(* C25: every cart in status ABANDONED eventually leaves it (on its way to *)
(* RECOVERED or LOST), when passes keep running and the clock advances.    *)
C25_AbandonedLeavesAbandoned ==
    \A c \in 1 .. MaxCarts :
        (c \in DOMAIN carts /\ carts[c].recoveryStatus = "ABANDONED")
            ~> (c \in DOMAIN carts /\ carts[c].recoveryStatus # "ABANDONED")

(* C26: the detect loop does not test the status it selected on before it  *)
(* sends: a detect step on a cart that another run has moved out of NONE   *)
(* since the query marks the cart ABANDONED again and, when the message is *)
(* delivered, has sent the first reminder once more.                       *)
C26_DetectSendsWhateverTheStatus ==
    [][ (/\ ev'.op = "detectCart"
         /\ <<"whatsapp", TRUE>> \in ev'.calls
         /\ carts[ev'.cart].recoveryStatus # "NONE")
        => /\ carts'[ev'.cart].recoveryStatus = "NOTIFIED_FIRST"
           /\ carts'[ev'.cart].abandonedAt = now
           /\ carts'[ev'.cart].lastNotifiedAt = now
           /\ delivered'[ev'.cart] = delivered[ev'.cart] + 1 ]_vars

(* two runs selected the cart in their detect phase and each had the first *)
(* reminder delivered                                                      *)
C26_Witness ==
    /\ ev.op = "detectCart"
    /\ ev.ret.ok
    /\ delivered[ev.cart] = 2
    /\ carts[ev.cart].recoveryStatus = "NOTIFIED_FIRST"

(* the Cart table cs with the carts of the stores other than s replaced:   *)
(* status st, remote id k, a phone number, every timestamp long past       *)
Elsewhere(cs, s, st, k) ==
    [ c \in DOMAIN cs |->
        IF cs[c].storeId = s THEN cs[c]
        ELSE [ cs[c] EXCEPT !.recoveryStatus = st, !.shopifyCartId = k,
                            !.customerPhone = "+1", !.updatedAt = -1000,
                            !.abandonedAt = -1000, !.lastNotifiedAt = -1000 ] ]

Changed(before, after) == {c \in DOMAIN before : after[c] # before[c]}

(* what the pass of store s reads from table cs at time t, and what it     *)
(* would write for the cart c at the head of its queue                     *)
PassReads(s, cs, t, q) ==
    << AbandonedCarts(s, cs, t), FollowUpCarts(s, cs, t), LostCount(s, cs, t),
       Changed(cs, MarkLost(s, cs, t)),
       getRecoveryStats(ScanService(s), cs),
       {k \in {101, 102} : ImportedAlready(s, cs, k)},
       IF q = <<>> THEN <<>>
       ELSE { LET r == sendCartRecoveryMessage(ScanService(s), cs, created,
                                               Head(q), o, t)
              IN  << o, r.ret, r.carts[Head(q)] >> :
                o \in SendOracle(ScanService(s), cs, Head(q)) } >>

(* C27: a pass shares nothing with the pass of another store.  A step of   *)
(* the pass of store s changes and creates carts of store s only, and      *)
(* leaves the waiting pass and its counters alone; its queue holds carts   *)
(* of s only; and what it reads (its three queries, the import's lookup,   *)
(* the statistics, the cart it sends for) is the same whatever the carts   *)
(* of the other stores are.  Interleaved with the pass of another store,   *)
(* it therefore does to its store's carts and to its counters what it does *)
(* when the two run one after the other.                                   *)
C27_StoresIndependent ==
    /\ [][ Running /\ scan.stores # <<>> /\ scan' # suspended =>
              /\ suspended' = suspended
              /\ \A c \in DOMAIN carts :
                    carts[c].storeId # Head(scan.stores) => carts'[c] = carts[c]
              /\ \A c \in NewCarts : carts'[c].storeId = Head(scan.stores) ]_vars
    /\ [](Running /\ scan.stores # <<>> =>
             LET s == Head(scan.stores)
             IN  /\ \A i \in DOMAIN scan.queue : carts[scan.queue[i]].storeId = s
                 /\ \A p \in (RecoveryStatus \X {101}) \cup {<<"ABANDONED", 102>>} :
                       PassReads(s, Elsewhere(carts, s, p[1], p[2]), now, scan.queue)
                           = PassReads(s, carts, now, scan.queue))

(* the passes of two stores in flight at once, each past its detect loop,  *)
(* each having marked its store's cart                                     *)
C27_Witness ==
    /\ scan.pc = "followUp"
    /\ suspended.pc = "followUp"
    /\ Head(scan.stores) # Head(suspended.stores)
    /\ \A c \in DOMAIN carts : carts[c].recoveryStatus # "NONE"
    /\ \E c \in DOMAIN carts : carts[c].recoveryStatus = "NOTIFIED_FIRST"

PublicOps == EngineOps \cup {"initialize"}

(* C28: a public method of the engine returns a value whatever fails.  One *)
(* of whose queries to the record store throws returns null, false, 0 or   *)
(* the all-zero statistics, and the error does not leave it; one whose     *)
(* remote call fails or whose write after a delivered message throws       *)
(* returns as well.                                                        *)
C28_NothingRaised ==
    ev.op \in PublicOps =>
        /\ ~ev.raised
        /\ ev.thrown # Null =>
              /\ ev.ret = NoReturn
              /\ ev.ret.stats.abandoned = 0 /\ ev.ret.stats.notified = 0
              /\ ev.ret.stats.recovered = 0 /\ ev.ret.stats.lost = 0
              /\ ev.ret.stats.revenue = 0 /\ ev.ret.stats.recoveryRate[1] = 0

(* the statistics of a store with a recovered cart, asked for when the     *)
(* query of the recovered carts throws: all zero                           *)
C28_Witness ==
    /\ ev.op = "stats"
    /\ ev.thrown = "cart.findMany"
    /\ InStatus(ev.svc.storeId, carts, {"RECOVERED"}) # {}
    /\ ev.ret.stats.recovered = 0
    /\ ev.ret.stats.revenue = 0

(* the phases of a store's pass, in the order of the handler *)
PhaseRank(pc) ==
    CASE pc = "import" -> 1
      [] pc \in {"detect", "detectCart"} -> 2
      [] pc \in {"followUp", "followUpCart"} -> 3
      [] pc = "expire" -> 4
      [] OTHER -> 5

(* the cart had a message delivered since the pass in progress started *)
NotifiedInPass(cart) ==
    cart.lastNotifiedAt # NoTime /\ cart.lastNotifiedAt >= scan.startTime

(* C29: within the pass of one store the phases run in the order import,   *)
(* detect and notify, follow-up, expire, and the pass moves to the next    *)
(* store from the last phase only (or from an engine that did not          *)
(* initialize).  A cart the pass sent the first reminder to is not sent    *)
(* the final reminder by the same pass, and a cart the pass sent a         *)
(* reminder to is not marked LOST by the same pass.                        *)
C29_PhasesInOrder ==
    [][ /\ (Running /\ scan'.pc # "idle" /\ scan.stores # <<>>
             /\ scan'.stores = scan.stores)
            => PhaseRank(scan'.pc) >= PhaseRank(scan.pc)
        /\ (Running /\ scan.stores # <<>> /\ scan'.stores # scan.stores)
            => /\ scan'.stores = Tail(scan.stores)
               /\ scan.pc \in {"expire", "import"}
               /\ scan.pc = "import" => ~InitializeOk(Head(scan.stores))
               /\ scan'.stores # <<>> => scan'.pc = "import"
        /\ ev'.op = "detectCart" => carts[ev'.cart].recoveryStatus = "NONE"
        /\ ev'.op = "followUpCart" => ~NotifiedInPass(carts[ev'.cart])
        /\ ev'.op = "expire" =>
               \A c \in NewlyLost(carts, carts') : ~NotifiedInPass(carts[c]) ]_vars

(* a pass sent the first reminder to a cart and has gone through its       *)
(* follow-up and expire phases: the cart is still NOTIFIED_FIRST           *)
C29_Witness ==
    /\ ev.op = "expire"
    /\ scan.results.notified = 1
    /\ scan.results.followUp = 0
    /\ \E c \in DOMAIN carts :
          /\ carts[c].recoveryStatus = "NOTIFIED_FIRST"
          /\ carts[c].lastNotifiedAt = scan.startTime

(* what sendCartRecoveryMessage tests first: the cart, its phone number,   *)
(* the two messaging credentials of its store                              *)
Sendable(cs, c) ==
    /\ Exists(cs, c)
    /\ cs[c].customerPhone # Null
    /\ Truthy(Store(cs[c].storeId).whatsappPhoneNumberId)
    /\ Truthy(Store(cs[c].storeId).whatsappAccessToken)

(* C30: sendCartRecoveryMessage for a cart that is missing, has no phone   *)
(* number or whose store lacks one of the two messaging credentials        *)
(* returns false, makes no remote call (no sync, no URL) and changes no    *)
(* cart; and when it gets no recovery URL it returns false and does not    *)
(* call WhatsApp.                                                          *)
C30_FailFast ==
    [][ ev'.op = "send" =>
          /\ ~Sendable(carts, ev'.cart) =>
                /\ ~ev'.ret.ok
                /\ ev'.calls = {}
                /\ carts' = carts
                /\ created' = created
          /\ <<"getCheckoutUrl", TRUE>> \notin ev'.calls =>
                /\ ~ev'.ret.ok
                /\ \A a \in BOOLEAN : <<"whatsapp", a>> \notin ev'.calls ]_vars

(* a send for a cart that has a remote cart and no phone number, on an     *)
(* engine that can reach the platform: false, and nothing called           *)
C30_Witness ==
    /\ ev.op = "send"
    /\ Exists(carts, ev.cart)
    /\ carts[ev.cart].customerPhone = Null
    /\ carts[ev.cart].shopifyCartId # NoId
    /\ CanFetch(ev.svc)
    /\ ~ev.ret.ok
    /\ ev.calls = {}

(* the two columns a delivered message writes *)
Notification(cart) == <<cart.recoveryStatus, cart.lastNotifiedAt>>

(* C31: sendCartRecoveryMessage that returns false leaves the recovery     *)
(* status and the last-notified timestamp of every cart as they were; one  *)
(* that returns true has called WhatsApp once, with success, has set the   *)
(* cart's last-notified timestamp to the current time and its status to a  *)
(* notified status, and has left these columns of the other carts alone.   *)
C31_NotifiedIffTrue ==
    [][ ev'.op = "send" =>
          /\ ~ev'.ret.ok =>
                \A c \in DOMAIN carts : Notification(carts'[c]) = Notification(carts[c])
          /\ ev'.ret.ok =>
                /\ <<"whatsapp", TRUE>> \in ev'.calls
                /\ <<"whatsapp", FALSE>> \notin ev'.calls
                /\ carts'[ev'.cart].lastNotifiedAt = now
                /\ carts'[ev'.cart].recoveryStatus \in Notified
                /\ \A c \in DOMAIN carts \ {ev'.cart} :
                      Notification(carts'[c]) = Notification(carts[c]) ]_vars

(* a send that WhatsApp refused, for a cart notified at an earlier hour:   *)
(* the cart keeps its status and its timestamp                             *)
C31_Witness ==
    /\ ev.op = "send"
    /\ ~ev.ret.ok
    /\ <<"whatsapp", FALSE>> \in ev.calls
    /\ carts[ev.cart].recoveryStatus = "NOTIFIED_FIRST"
    /\ carts[ev.cart].lastNotifiedAt # NoTime
    /\ carts[ev.cart].lastNotifiedAt < now

(* C32: the number importAbandonedCarts returns is the number of local     *)
(* carts the call created, in every outcome, also when the record store    *)
(* fails on a later checkout after carts were created for earlier ones.    *)
C32_CountIsCreated ==
    [][ ev'.op = "import" => ev'.ret.count = Cardinality(NewCarts) ]_vars

(* C33: getCartRecoveryUrl returns null whenever a piece is missing: the    *)
(* cart does not exist; the cart has no remote cart id (and then nothing   *)
(* is synchronised and no remote call is made); the synchronisation fails  *)
(* (the update and the create are both refused); the remote cart cannot be *)
(* fetched; the platform gives no checkout URL.                            *)
C33_NullOnAnyMissingPiece ==
    [][ ev'.op = "url" =>
          /\ ~Exists(carts, ev'.cart) => ev'.ret.url = NoUrl
          /\ Exists(carts, ev'.cart) /\ carts[ev'.cart].shopifyCartId = NoId
                => /\ ev'.ret.url = NoUrl
                   /\ ev'.calls = {}
                   /\ carts' = carts /\ created' = created
          /\ <<"cartLinesUpdate", FALSE>> \in ev'.calls
                /\ <<"cartCreate", FALSE>> \in ev'.calls
                => ev'.ret.url = NoUrl
          /\ <<"getCart", FALSE>> \in ev'.calls => ev'.ret.url = NoUrl
          /\ <<"getCheckoutUrl", FALSE>> \in ev'.calls => ev'.ret.url = NoUrl ]_vars

(* the carts of store s that importAbandonedCarts created for checkout k:  *)
(* only an import writes an abandonment time from before the clock starts  *)
(* (the checkout's creation time), and it copies the checkout's phone       *)
(* number; no operation changes either field of such a cart afterwards     *)
ImportedFrom(s, cs, k) ==
    {c \in DOMAIN cs : /\ cs[c].storeId = s
                       /\ cs[c].abandonedAt = Checkout(k).created_at
                       /\ cs[c].customerPhone = Checkout(k).phone}

(* C34: after any sequence of import, sync, recovery-URL and send calls on  *)
(* a store, every remote checkout has been imported into at most one local *)
(* cart of the store, also after a sync replaced an imported cart's remote *)
(* id through the create fallback.                                         *)
C34_ImportedAtMostOnce ==
    \A s \in StoreIds, k \in {101, 102} :
       Cardinality(ImportedFrom(s, carts, k)) <= 1

(* C35: an engine constructed for a store changes only carts of that store: *)
(* syncCartToShopify, sendCartRecoveryMessage and processRecovery called   *)
(* with the id of a cart of another store leave that cart unchanged.       *)
C35_OnlyOwnCarts ==
    [][ ev'.op \in {"sync", "send", "recover"} =>
          \A c \in DOMAIN carts :
             carts[c].storeId # ev'.svc.storeId => carts'[c] = carts[c] ]_vars

(* C36: when processRecovery on a cart completes while a send to the cart  *)
(* is in flight (the send has read the cart and has not written it), the    *)
(* cart is still RECOVERED after the send's write.                         *)
C36_RecoveredSurvivesSend ==
    [][ /\ flight.active /\ ~flight'.active
        /\ flight.status # "RECOVERED"
        /\ carts[flight.cart].recoveryStatus = "RECOVERED"
        => carts'[flight.cart].recoveryStatus = "RECOVERED" ]_vars

(* C37: the manual recovery endpoint marks a cart RECOVERED only when it    *)
(* answers with the redirect to the checkout URL: when it answers with an  *)
(* error, the status and the recovery time of every cart are unchanged.    *)
C37_ErrorAnswerLeavesCart ==
    [][ ev'.op = "manual" /\ ev'.ret.status # 307 =>
          \A c \in DOMAIN carts :
             /\ carts'[c].recoveryStatus = carts[c].recoveryStatus
             /\ carts'[c].recoveredAt = carts[c].recoveredAt ]_vars

(* C38: in the statistics getRecoveryStats returns, the recovered carts are *)
(* a part of the notified carts: the recovered count is at most the         *)
(* notified count and the recovery rate is at most 100, after any sequence *)
(* of sends, recoveries and passes.                                        *)
C38_RecoveredWithinNotified ==
    [][ ev'.op = "stats" =>
          /\ ev'.ret.stats.recovered <= ev'.ret.stats.notified
          /\ ev'.ret.stats.recoveryRate[1] <= 100 * ev'.ret.stats.recoveryRate[2] ]_vars

(* C39: in the recovery message the percentage figure appears only when    *)
(* the cart has a discount code, a discount amount and a non-zero total;    *)
(* when the total is zero the percentage is omitted and nothing is divided *)
(* by zero.                                                                *)
C39_PercentageNeedsTotal ==
    [][ ev'.op = "message" =>
          LET cart == carts[ev'.cart]
              figure == ev'.ret.figure
          IN  /\ figure.kind \notin {"omitted", "question"}
                    => /\ cart.discountCode # Null
                       /\ cart.discountAmount # 0
                       /\ cart.total # 0
              /\ cart.total = 0 => figure.kind \in {"omitted", "question"} ]_vars

====
